---- MODULE Spec2Model ----
(***************************************************************************)
(* Eachie: multi-model research round (runResearch).                       *)
(*                                                                         *)
(* One round: resolve the API key and the model list, issue one upstream   *)
(* generateText call per resolved model concurrently, join them with       *)
(* Promise.all, then either return the all-failed result or issue one      *)
(* synthesis call and return the full result.                              *)
(*                                                                         *)
(* Conventions                                                             *)
(*   - an optional JavaScript value is a sequence of length 0 (undefined)  *)
(*     or 1 (the value): None / Some(v);                                   *)
(*   - a JavaScript string built by a template literal is a sequence of    *)
(*     chunks, concatenation is \o, the empty string is << >>;             *)
(*   - money is an integer number of 1e-9 USD, so that                     *)
(*     tokens / 1e6 * rate is tokens * (rate * 1000) exactly.              *)
(***************************************************************************)
EXTENDS Integers, Sequences, FiniteSets, TLC

\* ------------------------------------------------------------------ bounds
\* longest request.modelIds list drawn at Init
MaxIds == 2
\* largest value of the wall clock (Date.now())
MaxClock == 1

\* ------------------------------------------------------- optional values
None == << >>
Some(v) == << v >>
IsSome(o) == Len(o) = 1
Get(o) == o[1]

\* JavaScript truthiness of an optional string (undefined and '' are falsy)
TruthyStr(o) == IsSome(o) /\ Get(o) # ""

\* a || b for optional numbers (undefined and 0 are falsy)
OrZero(o) == IF IsSome(o) THEN Get(o) ELSE 0

Range(s) == { s[i] : i \in DOMAIN s }

\* Array.prototype.filter
RECURSIVE SelectSeqBy(_, _)
SelectSeqBy(s, keep) ==
  IF s = << >> THEN << >>
  ELSE (IF Head(s) \in keep THEN << Head(s) >> ELSE << >>) \o SelectSeqBy(Tail(s), keep)

\* sequences over S of length at most n
SeqUpTo(S, n) == UNION { [1..k -> S] : k \in 0..n }

\* ------------------------------------------------------------- registry
ModelConfig(id, name, vision, reasoning) ==
  [id |-> id, name |-> name, supportsVision |-> vision, reasoning |-> reasoning]

ALL_MODELS ==
  << ModelConfig("anthropic/claude-opus-4.5:online", "Claude Opus 4.5", TRUE, None),
     ModelConfig("anthropic/claude-sonnet-4.5:online", "Claude Sonnet 4.5", TRUE, None),
     ModelConfig("anthropic/claude-haiku-4.5:online", "Claude Haiku 4.5", TRUE, None),
     ModelConfig("openai/gpt-5.1:online", "GPT-5.1", TRUE, Some("high")),
     ModelConfig("openai/o3:online", "o3 (high)", FALSE, Some("high")),
     ModelConfig("openai/o3-mini:online", "o3-mini (low)", FALSE, Some("low")),
     ModelConfig("google/gemini-3-pro-preview:online", "Gemini 3 Pro", TRUE, None),
     ModelConfig("google/gemini-2.5-pro:online", "Gemini 2.5 Pro", TRUE, None),
     ModelConfig("google/gemini-2.5-flash:online", "Gemini 2.5 Flash", TRUE, None),
     ModelConfig("google/gemini-2.0-flash:online", "Gemini 2.0 Flash", TRUE, None),
     ModelConfig("perplexity/sonar-deep-research", "Perplexity Deep", FALSE, None),
     ModelConfig("perplexity/sonar-pro", "Perplexity Sonar", FALSE, None),
     ModelConfig("x-ai/grok-4:online", "Grok 4", TRUE, None),
     ModelConfig("x-ai/grok-4.1-fast:online", "Grok Fast (thinking)", TRUE, Some("enabled")),
     ModelConfig("deepseek/deepseek-r1:online", "DeepSeek R1", FALSE, None),
     ModelConfig("qwen/qwen3-235b-a22b:online", "Qwen3-Max", FALSE, None),
     ModelConfig("moonshotai/kimi-k2:online", "Kimi K2", FALSE, None),
     ModelConfig("meta-llama/llama-4-maverick:online", "Llama 4 Maverick", TRUE, None),
     ModelConfig("minimax/minimax-m1-80k:online", "MiniMax M1", FALSE, None) >>

\* a default id written without its ':online' suffix, which the registry
\* does not hold
DEFAULT_MODELS_StaleId ==
  << "anthropic/claude-haiku-4.5:online",
     "google/gemini-2.5-flash:online",
     "deepseek/deepseek-r1" >>

DEFAULT_MODELS ==
  << "anthropic/claude-haiku-4.5:online",
     "google/gemini-2.5-flash:online",
     "deepseek/deepseek-r1:online" >>

ORCHESTRATOR_MODELS ==
  << [id |-> "anthropic/claude-sonnet-4.5", name |-> "Claude Sonnet 4.5"],
     [id |-> "anthropic/claude-opus-4.5", name |-> "Claude Opus 4.5"],
     [id |-> "openai/gpt-5.1", name |-> "GPT-5.1"],
     [id |-> "google/gemini-3-pro-preview", name |-> "Gemini 3 Pro"] >>

DEFAULT_ORCHESTRATOR == "anthropic/claude-sonnet-4.5"

\* ids known to the registry
RegistryIds == { ALL_MODELS[i].id : i \in DOMAIN ALL_MODELS }

\* ALL_MODELS.find(m => m.id === id): the first entry with that id
FindModel(id) ==
  LET hits == { i \in DOMAIN ALL_MODELS : ALL_MODELS[i].id = id }
  IN  IF hits = {} THEN None
      ELSE Some(ALL_MODELS[CHOOSE i \in hits : \A j \in hits : i <= j])

\* ALL_MODELS.filter(m => modelIds.includes(m.id)): registry order, not request order
LookupModels_RegistryOrder(ids) ==
  SelectSeq(ALL_MODELS, LAMBDA m : m.id \in Range(ids))

\* modelIds.map(id => ALL_MODELS.find(...)).filter(m => m !== undefined)
RECURSIVE LookupModels(_)
LookupModels(ids) ==
  IF ids = << >> THEN << >>
  ELSE FindModel(Head(ids)) \o LookupModels(Tail(ids))

\* -------------------------------------------------------------- pricing
\* rate per million tokens, times 1000
Price(in, out) == [input |-> in, output |-> out]

MODEL_PRICING ==
  [id \in RegistryIds |->
     CASE id = "anthropic/claude-opus-4.5:online" -> Price(15000, 75000)
       [] id = "anthropic/claude-sonnet-4.5:online" -> Price(3000, 15000)
       [] id = "anthropic/claude-haiku-4.5:online" -> Price(250, 1250)
       [] id = "openai/gpt-5.1:online" -> Price(1250, 10000)
       [] id = "openai/o3:online" -> Price(10000, 40000)
       [] id = "openai/o3-mini:online" -> Price(750, 6000)
       [] id = "google/gemini-3-pro-preview:online" -> Price(2500, 10000)
       [] id = "google/gemini-2.5-pro:online" -> Price(1250, 5000)
       [] id = "google/gemini-2.5-flash:online" -> Price(150, 600)
       [] id = "google/gemini-2.0-flash:online" -> Price(75, 300)
       [] id = "perplexity/sonar-deep-research" -> Price(3000, 15000)
       [] id = "perplexity/sonar-pro" -> Price(1000, 5000)
       [] id = "x-ai/grok-4:online" -> Price(1000, 5000)
       [] id = "x-ai/grok-4.1-fast:online" -> Price(500, 2000)
       [] id = "deepseek/deepseek-r1:online" -> Price(200, 4500)
       [] id = "qwen/qwen3-235b-a22b:online" -> Price(300, 1490)
       [] id = "moonshotai/kimi-k2:online" -> Price(1000, 5000)
       [] id = "meta-llama/llama-4-maverick:online" -> Price(0, 0)
       [] id = "minimax/minimax-m1-80k:online" -> Price(500, 2000) ]

\* usage is an optional [promptTokens, completionTokens, totalTokens]
calculateCost(modelId, usage) ==
  IF ~IsSome(usage) THEN 0
  ELSE IF modelId \notin DOMAIN MODEL_PRICING THEN 0
  ELSE Get(usage).promptTokens * MODEL_PRICING[modelId].input
       + Get(usage).completionTokens * MODEL_PRICING[modelId].output

\* ------------------------------------------------ pricing module (lib)
\* rate table of the pricing module, 1e-9 USD per token; its keys are not
\* those of the registry: 'x-ai/grok-4.1-fast' and 'minimax/minimax-m1'
MODEL_PRICING_LIB ==
  [id \in { "anthropic/claude-opus-4.5:online", "anthropic/claude-sonnet-4.5:online",
            "anthropic/claude-haiku-4.5:online", "openai/gpt-5.1:online",
            "openai/o3:online", "openai/o3-mini:online",
            "google/gemini-3-pro-preview:online", "google/gemini-2.5-pro:online",
            "google/gemini-2.5-flash:online", "google/gemini-2.0-flash:online",
            "perplexity/sonar-deep-research", "perplexity/sonar-pro",
            "x-ai/grok-4:online", "x-ai/grok-4.1-fast", "deepseek/deepseek-r1:online",
            "qwen/qwen3-235b-a22b:online", "moonshotai/kimi-k2:online",
            "meta-llama/llama-4-maverick:online", "minimax/minimax-m1" } |->
     CASE id = "anthropic/claude-opus-4.5:online" -> Price(15000, 75000)
       [] id = "anthropic/claude-sonnet-4.5:online" -> Price(3000, 15000)
       [] id = "anthropic/claude-haiku-4.5:online" -> Price(250, 1250)
       [] id = "openai/gpt-5.1:online" -> Price(1250, 10000)
       [] id = "openai/o3:online" -> Price(10000, 40000)
       [] id = "openai/o3-mini:online" -> Price(750, 6000)
       [] id = "google/gemini-3-pro-preview:online" -> Price(2500, 10000)
       [] id = "google/gemini-2.5-pro:online" -> Price(1250, 5000)
       [] id = "google/gemini-2.5-flash:online" -> Price(150, 600)
       [] id = "google/gemini-2.0-flash:online" -> Price(75, 300)
       [] id = "perplexity/sonar-deep-research" -> Price(3000, 15000)
       [] id = "perplexity/sonar-pro" -> Price(1000, 5000)
       [] id = "x-ai/grok-4:online" -> Price(1000, 5000)
       [] id = "x-ai/grok-4.1-fast" -> Price(500, 2000)
       [] id = "deepseek/deepseek-r1:online" -> Price(200, 4500)
       [] id = "qwen/qwen3-235b-a22b:online" -> Price(300, 1490)
       [] id = "moonshotai/kimi-k2:online" -> Price(1000, 5000)
       [] id = "meta-llama/llama-4-maverick:online" -> Price(0, 0)
       [] id = "minimax/minimax-m1" -> Price(400, 2200) ]

\* MODEL_PRICING[modelId] || null
findModelPricing(modelId) ==
  IF modelId \in DOMAIN MODEL_PRICING_LIB THEN Some(MODEL_PRICING_LIB[modelId]) ELSE None

\* the two rates applied the wrong way round
calculateCostLib_SwapsRates(modelId, usage) ==
  IF ~IsSome(usage) THEN 0
  ELSE IF ~IsSome(findModelPricing(modelId)) THEN 0
  ELSE Get(usage).promptTokens * Get(findModelPricing(modelId)).output
       + Get(usage).completionTokens * Get(findModelPricing(modelId)).input

\* calculateCost of the pricing module
calculateCostLib(modelId, usage) ==
  IF ~IsSome(usage) THEN 0
  ELSE IF ~IsSome(findModelPricing(modelId)) THEN 0
  ELSE Get(usage).promptTokens * Get(findModelPricing(modelId)).input
       + Get(usage).completionTokens * Get(findModelPricing(modelId)).output

\* String.prototype.length of a text given as chunks
RECURSIVE StrLength(_)
StrLength(text) ==
  IF text = << >> THEN 0 ELSE Len(Head(text)) + StrLength(Tail(text))

\* Math.ceil(n / 4)
CeilQuarter(n) == (n + 3) \div 4

\* the token estimate rounded down instead of up
estimateCostFromText_Floor(modelId, inputText, outputText) ==
  LET pricing_ == findModelPricing(modelId)
  IN  IF ~IsSome(pricing_) THEN None
      ELSE IF Get(pricing_).input = 0 /\ Get(pricing_).output = 0 THEN None
      ELSE Some([cost |-> (StrLength(inputText) \div 4) * Get(pricing_).input
                          + (StrLength(outputText) \div 4) * Get(pricing_).output,
                 isEstimate |-> TRUE])

\* null is None, a CostEstimate is Some([cost, isEstimate])
estimateCostFromText(modelId, inputText, outputText) ==
  LET pricing_ == findModelPricing(modelId)
  IN  IF ~IsSome(pricing_) THEN None
      ELSE IF Get(pricing_).input = 0 /\ Get(pricing_).output = 0 THEN None
      ELSE Some([cost |-> CeilQuarter(StrLength(inputText)) * Get(pricing_).input
                          + CeilQuarter(StrLength(outputText)) * Get(pricing_).output,
                 isEstimate |-> TRUE])

\* ------------------------------------------------------------- prompts
RESEARCH_SYSTEM_PROMPT ==
  << "You are an expert research assistant with built-in web search." >>

AllFailedSynthesis ==
  << "All models failed to respond. Please check your API key and try again." >>

\* new Error(message); string is what String(error) gives
JsError(message, string) == [isError |-> TRUE, message |-> message, string |-> string]
\* a thrown value that is not an Error; string is what String(value) gives
JsNonError(string) == [isError |-> FALSE, message |-> "", string |-> string]

MissingCredential ==
  JsError("API key required. Please add your OpenRouter key in Settings.",
          "Error: API key required. Please add your OpenRouter key in Settings.")

NoValidModels ==
  JsError("No valid models selected", "Error: No valid models selected")

\* number of query characters quoted in the synthesis prompt
QuerySliceLen == 200

\* the query embedded whole, as the earlier runResearch did
Slice0_Whole(s, n) == s

\* String.prototype.slice(0, n)
Slice0(s, n) == SubSeq(s, 1, IF Len(s) < n THEN Len(s) ELSE n)

\* Array.prototype.join over chunked strings
RECURSIVE JoinWith(_, _)
JoinWith(parts, sep) ==
  IF parts = << >> THEN << >>
  ELSE IF Len(parts) = 1 THEN Head(parts)
  ELSE Head(parts) \o sep \o JoinWith(Tail(parts), sep)

\* request.images && request.images.length > 0
HasImages(req) == IsSome(req.images) /\ Len(Get(req.images)) > 0

DataUri(img) == << "data:", img.mimeType, ";base64,", img.base64 >>

\* only the first attachment is forwarded
ImageParts_FirstOnly(imgs) ==
  [i \in DOMAIN imgs \cap { 1 } |-> [type |-> "image", image |-> DataUri(imgs[i])]]

ImageParts(imgs) ==
  [i \in DOMAIN imgs |-> [type |-> "image", image |-> DataUri(imgs[i])]]

\* the vision check dropped: every model is sent the image parts
buildMessages_ImagesToAll(model, req) ==
  << [role |-> "system", content |-> [type |-> "string", text |-> RESEARCH_SYSTEM_PROMPT]] >>
  \o
  IF HasImages(req)
  THEN << [role |-> "user",
           content |-> [type |-> "parts",
                        parts |-> << [type |-> "text", text |-> req.query] >>
                                  \o ImageParts(Get(req.images))]] >>
  ELSE << [role |-> "user", content |-> [type |-> "string", text |-> req.query]] >>

\* messages sent to one research model
buildMessages(model, req) ==
  << [role |-> "system", content |-> [type |-> "string", text |-> RESEARCH_SYSTEM_PROMPT]] >>
  \o
  IF HasImages(req) /\ model.supportsVision
  THEN << [role |-> "user",
           content |-> [type |-> "parts",
                        parts |-> << [type |-> "text", text |-> req.query] >>
                                  \o ImageParts(Get(req.images))]] >>
  ELSE << [role |-> "user",
           content |-> [type |-> "string",
                        text |-> IF HasImages(req) /\ ~model.supportsVision
                                 THEN << "[Note: ", ToString(Len(Get(req.images))),
                                         " image(s) attached but not visible to this model]\n\n" >>
                                      \o req.query
                                 ELSE req.query]] >>

\* 'enabled' handled like an effort level
ReasoningMetadata_EnabledAsEffort(model) ==
  IF IsSome(model.reasoning)
  THEN Some([openrouter |-> [reasoning |-> [effort |-> Get(model.reasoning)]]])
  ELSE None

\* experimental_providerMetadata chosen from model.reasoning
ReasoningMetadata(model) ==
  IF model.reasoning = Some("enabled")
  THEN Some([openrouter |-> [reasoning |-> [enabled |-> TRUE]]])
  ELSE IF model.reasoning = Some("low") \/ model.reasoning = Some("high")
  THEN Some([openrouter |-> [reasoning |-> [effort |-> Get(model.reasoning)]]])
  ELSE None

\* options handed to generateText for one research model
ModelCallOptions(model, req) ==
  [model |-> model.id,
   messages |-> buildMessages(model, req),
   maxTokens |-> 2500,
   experimental_providerMetadata |-> ReasoningMetadata(model)]

\* one section of the synthesis prompt per response
Sections(rs) == [i \in DOMAIN rs |-> << "### ", rs[i].model, "\n" >> \o rs[i].content]

SynthesisPrompt(req, successful) ==
  << "Synthesize these AI model responses to: \"" >>
  \o Slice0(req.query, QuerySliceLen)
  \o << "\"\n\n" >>
  \o JoinWith(Sections(successful), << "\n\n---\n\n" >>)
  \o << "\n\nCreate a synthesis that: ... Be substantive and specific" >>

\* options handed to generateText for the synthesis call
OrchestratorOptions(orchestratorId, req, successful) ==
  [model |-> orchestratorId,
   messages |-> << [role |-> "user",
                    content |-> [type |-> "string",
                                 text |-> SynthesisPrompt(req, successful)]] >>,
   maxTokens |-> 1500,
   experimental_providerMetadata |-> None]

\* ORCHESTRATOR_MODELS.find(o => o.id === orchestratorId)?.name || orchestratorId
OrchestratorName(orchestratorId) ==
  LET hits == { i \in DOMAIN ORCHESTRATOR_MODELS : ORCHESTRATOR_MODELS[i].id = orchestratorId }
  IN  IF hits = {} THEN orchestratorId
      ELSE ORCHESTRATOR_MODELS[CHOOSE i \in hits : \A j \in hits : i <= j].name

\* new Date().toISOString()
ToISOString(t) == << "T", ToString(t), "Z" >>

\* ------------------------------------------------ gateway outcomes, promises
\* what an upstream generateText call does: resolve with {text, usage?} ...
GatewayOk(text, usage) ==
  [kind |-> "ok", text |-> text, usage |-> usage, error |-> None]
\* ... or reject with a thrown value (an Error with a message, or anything else)
GatewayThrow(err) ==
  [kind |-> "throw", text |-> << >>, usage |-> None, error |-> Some(err)]

Pending == [state |-> "pending", value |-> None, reason |-> None]
Fulfilled(v) == [state |-> "fulfilled", value |-> Some(v), reason |-> None]
Rejected(e) == [state |-> "rejected", value |-> None, reason |-> Some(e)]

\* error instanceof Error ? error.message : String(error)
ErrorText(err) == IF err.isError THEN err.message ELSE err.string

\* result.usage ? { promptTokens: ... || 0, ... } : undefined
NormalizeUsage(raw) ==
  IF ~IsSome(raw) THEN None
  ELSE Some([promptTokens |-> OrZero(Get(raw).promptTokens),
             completionTokens |-> OrZero(Get(raw).completionTokens),
             totalTokens |-> OrZero(Get(raw).totalTokens)])

\* the return of the try block
SuccessResponse(model, outcome, duration) ==
  [model |-> model.name,
   modelId |-> model.id,
   content |-> outcome.text,
   success |-> TRUE,
   error |-> None,
   durationMs |-> Some(duration),
   usage |-> NormalizeUsage(outcome.usage),
   cost |-> Some(calculateCost(model.id, NormalizeUsage(outcome.usage)))]

\* the catch block reporting the error text as content, with no error field
FailureResponse_ErrorAsContent(model, err, duration) ==
  [model |-> model.name,
   modelId |-> model.id,
   content |-> << ErrorText(err) >>,
   success |-> FALSE,
   error |-> None,
   durationMs |-> Some(duration),
   usage |-> None,
   cost |-> None]

\* the return of the catch block
FailureResponse(model, err, duration) ==
  [model |-> model.name,
   modelId |-> model.id,
   content |-> << >>,
   success |-> FALSE,
   error |-> Some(ErrorText(err)),
   durationMs |-> Some(duration),
   usage |-> None,
   cost |-> None]

\* the callback without its try/catch: a thrown call rejects the callback's promise
ModelCallback_NoCatch(model, outcome, modelStart, t) ==
  IF outcome.kind = "ok"
  THEN Fulfilled(SuccessResponse(model, outcome, t - modelStart))
  ELSE Rejected(Get(outcome.error))

\* the async callback of models.map after its await: the promise it settles
ModelCallback(model, outcome, modelStart, t) ==
  IF outcome.kind = "ok"
  THEN Fulfilled(SuccessResponse(model, outcome, t - modelStart))
  ELSE Fulfilled(FailureResponse(model, Get(outcome.error), t - modelStart))

\* Promise.all: rejected once any input is rejected, fulfilled once all are
PromiseAllState(ps) ==
  IF \E i \in DOMAIN ps : ps[i].state = "rejected" THEN "rejected"
  ELSE IF \A i \in DOMAIN ps : ps[i].state = "fulfilled" THEN "fulfilled"
  ELSE "pending"

\* the filter left out: every response counts as successful
Successful_NoFilter(rs) == rs

\* the filter on content instead of success: a successful empty answer is dropped
Successful_DropsEmpty(rs) == SelectSeq(rs, LAMBDA r : r.content # << >>)

\* responses.filter(r => r.success)
RECURSIVE Successful(_)
Successful(rs) ==
  IF rs = << >> THEN << >>
  ELSE (IF Head(rs).success THEN << Head(rs) >> ELSE << >>) \o Successful(Tail(rs))

\* reduce without its initial value: the first response only seeds the sum
SumCost_DropsFirst(rs) ==
  LET RECURSIVE Sum(_)
      Sum(xs) == IF xs = << >> THEN 0 ELSE OrZero(Head(xs).cost) + Sum(Tail(xs))
  IN  IF rs = << >> THEN 0 ELSE Sum(Tail(rs))

\* responses.reduce((sum, r) => sum + (r.cost || 0), 0)
RECURSIVE SumCost(_)
SumCost(rs) ==
  IF rs = << >> THEN 0 ELSE OrZero(Head(rs).cost) + SumCost(Tail(rs))

\* ------------------------------------------------------------ inputs
\* ids a request may select: a vision model, a non-vision reasoning model,
\* and an id the registry does not know
IdChoices == { "anthropic/claude-haiku-4.5:online", "openai/o3:online", "unknown/model" }

Queries == { << "w", "h", "y" >> }

ImageChoices == { None, Some(<< [mimeType |-> "image/png", base64 |-> "AAAA"] >>) }

ApiKeyChoices == { None, Some(""), Some("sk-or-user") }

ByokChoices == { None, Some(FALSE), Some(TRUE) }

\* process.env.OPENROUTER_API_KEY
EnvKeyChoices == { None, Some("sk-or-server") }

OrchestratorChoices == { None, Some("openai/gpt-5.1") }

\* requests that exercise the key resolution: every combination of apiKey
\* and byokMode, over a one-id list that is known or unknown
KeyRequests ==
  [query : Queries,
   images : { None },
   modelIds : { Some(<< "anthropic/claude-haiku-4.5:online" >>), Some(<< "unknown/model" >>) },
   orchestratorId : { None },
   apiKey : ApiKeyChoices,
   byokMode : ByokChoices]

\* requests that exercise the round: every model list, with and without
\* images and orchestrator, from a non-BYOK caller without a key of its own
RoundRequests ==
  [query : Queries,
   images : ImageChoices,
   modelIds : { None } \cup { Some(ids) : ids \in SeqUpTo(IdChoices, MaxIds) },
   orchestratorId : OrchestratorChoices,
   apiKey : { None },
   byokMode : { None }]

Requests == KeyRequests \cup RoundRequests

\* usage as the gateway reports it, here with one field missing
ReplyUsage ==
  Some([promptTokens |-> Some(1200), completionTokens |-> Some(800), totalTokens |-> None])

\* values an upstream call may throw
ThrownValues == { JsError("HTTP 500", "Error: HTTP 500"), JsNonError("timeout") }

\* what an upstream model call may do: resolve with an empty text and no
\* usage, resolve with a text and usage, or throw
ModelOutcomes ==
  { GatewayOk(<< >>, None), GatewayOk(<< "answer" >>, ReplyUsage) }
  \cup { GatewayThrow(e) : e \in ThrownValues }

SynthesisTexts == { << "synthesis" >> }

\* ------------------------------------------------------------- state
VARIABLES
  request,        \* the ResearchRequest of this round
  envKey,         \* process.env.OPENROUTER_API_KEY
  now,            \* Date.now()
  pc,             \* where runResearch is: "entry", "awaitAll", "awaitSynthesis", "returned", "threw"
  apiKey,         \* resolved key handed to createOpenRouter (None before resolution)
  orchestratorId, \* resolved synthesis model id
  startTime,      \* Date.now() at entry
  models,         \* resolved ModelConfig list
  modelStart,     \* per callback: Date.now() when it started
  promises,       \* per callback: the promise returned by the async map callback
  calls,          \* options of every generateText call issued so far, in order
  outcomes,       \* per model call: what the gateway did with it (None while in flight)
  responses,      \* the array awaited from Promise.all (None until the join)
  synthesis,      \* the promise of the synthesis generateText call (None until issued)
  result,         \* the ResearchResult returned (None until returned)
  thrown,         \* the value runResearch threw (None unless it threw)
  pricing,        \* one call of the pricing module: its arguments and what it returned
  followUp,       \* one runFollowUp invocation: its arguments, its call, its outcome
  parked,         \* the locals of a second runResearch invocation while the first one runs
  users,                 \* table users: id -> [credits_cents, total_spent_cents]
  referral_codes,        \* table referral_codes: a set of rows
  referral_redemptions,  \* table referral_redemptions: a set of rows
  dbCalls,               \* the calls of the query functions under way: arguments, position, locals, outcome
  pendingClarifications, \* the Slack route's Map: thread_ts -> pending clarification
  slackEvents,           \* the Slack events being processed: payload and position of the handler
  slackLog               \* what the handlers did: entries stored, rounds and follow-ups started

\* the database
dbVars == << users, referral_codes, referral_redemptions, dbCalls >>

\* the Slack route
slackVars == << pendingClarifications, slackEvents, slackLog >>

\* the locals of one runResearch invocation
locals == << request, pc, apiKey, orchestratorId, startTime, models, modelStart,
             promises, calls, outcomes, responses, synthesis, result, thrown >>

vars == << request, envKey, now, pc, apiKey, orchestratorId, startTime, models,
           modelStart, promises, calls, outcomes, responses, synthesis, result, thrown,
           pricing, followUp, parked, users, referral_codes, referral_redemptions,
           dbCalls, pendingClarifications, slackEvents, slackLog >>

\* no table is populated and no query function is called
DbIdle ==
  /\ users = << >>
  /\ referral_codes = {}
  /\ referral_redemptions = {}
  /\ dbCalls = << >>

\* the Slack route has received nothing
SlackIdle ==
  /\ pendingClarifications = << >>
  /\ slackEvents = << >>
  /\ slackLog = {}

\* runResearch entered, nothing executed yet
AtEntry ==
  /\ pc = "entry"
  /\ apiKey = None
  /\ orchestratorId = None
  /\ startTime = None
  /\ models = << >>
  /\ modelStart = << >>
  /\ promises = << >>
  /\ calls = << >>
  /\ outcomes = << >>
  /\ responses = None
  /\ synthesis = None
  /\ result = None
  /\ thrown = None

Init ==
  /\ \/ request \in KeyRequests /\ envKey \in EnvKeyChoices
     \/ request \in RoundRequests /\ envKey = Some("sk-or-server")
  /\ now = 0
  /\ AtEntry
  /\ pricing = None
  /\ followUp = None
  /\ parked = None
  /\ DbIdle
  /\ SlackIdle

\* the BYOK flag ignored: the server key is always the fallback
ResolveApiKey_IgnoreByok(req, env) ==
  IF TruthyStr(req.apiKey) THEN req.apiKey ELSE env

\* request.apiKey || (request.byokMode ? undefined : process.env.OPENROUTER_API_KEY)
ResolveApiKey(req, env) ==
  IF TruthyStr(req.apiKey) THEN req.apiKey
  ELSE IF req.byokMode = Some(TRUE) THEN None
  ELSE env

\* the defaults also replace a list that holds no known id
ResolveModelIds_FallbackOnUnknown(req) ==
  IF IsSome(req.modelIds) /\ LookupModels(Get(req.modelIds)) # << >>
  THEN Get(req.modelIds)
  ELSE DEFAULT_MODELS

\* request.modelIds?.length ? request.modelIds : DEFAULT_MODELS
ResolveModelIds(req) ==
  IF IsSome(req.modelIds) /\ Len(Get(req.modelIds)) > 0 THEN Get(req.modelIds)
  ELSE DEFAULT_MODELS

\* request.orchestratorId || DEFAULT_ORCHESTRATOR
ResolveOrchestrator(req) ==
  IF TruthyStr(req.orchestratorId) THEN Get(req.orchestratorId) ELSE DEFAULT_ORCHESTRATOR

\* the wall clock advances
Tick ==
  /\ now < MaxClock
  /\ pc \in { "entry", "awaitAll", "awaitSynthesis" }
  /\ now' = now + 1
  /\ UNCHANGED << request, envKey, pc, apiKey, orchestratorId, startTime, models,
                  modelStart, promises, calls, outcomes, responses, synthesis, result,
                  thrown >>
  /\ UNCHANGED << pricing, followUp, parked, dbVars, slackVars >>

\* the key check placed after the fan-out: the calls go out, then the throw
Start_LateKeyCheck ==
  /\ pc = "entry"
  /\ startTime' = Some(now)
  /\ LET key == ResolveApiKey(request, envKey)
         ms == LookupModels(ResolveModelIds(request))
     IN  /\ apiKey' = key
         /\ orchestratorId' = Some(ResolveOrchestrator(request))
         /\ models' = ms
         /\ IF Len(ms) = 0
            THEN /\ pc' = "threw"
                 /\ thrown' = Some(NoValidModels)
                 /\ UNCHANGED << modelStart, promises, calls, outcomes >>
            ELSE /\ modelStart' = [i \in DOMAIN ms |-> now]
                 /\ promises' = [i \in DOMAIN ms |-> Pending]
                 /\ calls' = [i \in DOMAIN ms |-> ModelCallOptions(ms[i], request)]
                 /\ outcomes' = [i \in DOMAIN ms |-> None]
                 /\ IF ~TruthyStr(key)
                    THEN pc' = "threw" /\ thrown' = Some(MissingCredential)
                    ELSE pc' = "awaitAll" /\ UNCHANGED thrown
  /\ UNCHANGED << request, envKey, now, responses, synthesis, result >>
  /\ UNCHANGED << pricing, followUp, parked, dbVars, slackVars >>

\* runResearch from its entry to the await of Promise.all: key check, model
\* resolution, and the synchronous part of every map callback (each issues
\* its generateText call)
Start ==
  /\ pc = "entry"
  /\ startTime' = Some(now)
  /\ LET key == ResolveApiKey(request, envKey)
         ms == LookupModels(ResolveModelIds(request))
     IN  IF ~TruthyStr(key)
         THEN /\ pc' = "threw"
              /\ thrown' = Some(MissingCredential)
              /\ UNCHANGED << apiKey, orchestratorId, models, modelStart, promises, calls,
                              outcomes >>
         ELSE /\ apiKey' = key
              /\ orchestratorId' = Some(ResolveOrchestrator(request))
              /\ models' = ms
              /\ IF Len(ms) = 0
                 THEN /\ pc' = "threw"
                      /\ thrown' = Some(NoValidModels)
                      /\ UNCHANGED << modelStart, promises, calls, outcomes >>
                 ELSE /\ pc' = "awaitAll"
                      /\ modelStart' = [i \in DOMAIN ms |-> now]
                      /\ promises' = [i \in DOMAIN ms |-> Pending]
                      /\ calls' = [i \in DOMAIN ms |-> ModelCallOptions(ms[i], request)]
                      /\ outcomes' = [i \in DOMAIN ms |-> None]
                      /\ UNCHANGED thrown
  /\ UNCHANGED << request, envKey, now, responses, synthesis, result >>
  /\ UNCHANGED << pricing, followUp, parked, dbVars, slackVars >>

\* a shared abort signal: a throwing call also fails every call still in flight
ModelCallSettles_AbortOthers(i, outcome) ==
  /\ i \in DOMAIN promises
  /\ promises[i].state = "pending"
  /\ outcomes' = [outcomes EXCEPT ![i] = Some(outcome)]
  /\ promises' =
       [j \in DOMAIN promises |->
          IF j = i THEN ModelCallback(models[i], outcome, modelStart[i], now)
          ELSE IF outcome.kind = "throw" /\ promises[j].state = "pending"
          THEN Fulfilled(FailureResponse(models[j], JsError("aborted", "Error: aborted"),
                                         now - modelStart[j]))
          ELSE promises[j]]
  /\ UNCHANGED << request, envKey, now, pc, apiKey, orchestratorId, startTime, models,
                  modelStart, calls, responses, synthesis, result, thrown >>
  /\ UNCHANGED << pricing, followUp, parked, dbVars, slackVars >>

\* a retry: the first call of the round that throws is issued once more
\* instead of being reported
ModelCallSettles_RetryOnce(i, outcome) ==
  /\ i \in DOMAIN promises
  /\ promises[i].state = "pending"
  /\ IF outcome.kind = "throw" /\ Len(calls) = Len(promises)
     THEN /\ calls' = Append(calls, calls[i])
          /\ UNCHANGED << outcomes, promises >>
     ELSE /\ outcomes' = [outcomes EXCEPT ![i] = Some(outcome)]
          /\ promises' = [promises EXCEPT
                            ![i] = ModelCallback(models[i], outcome, modelStart[i], now)]
          /\ UNCHANGED calls
  /\ UNCHANGED << request, envKey, now, pc, apiKey, orchestratorId, startTime, models,
                  modelStart, responses, synthesis, result, thrown >>
  /\ UNCHANGED << pricing, followUp, parked, dbVars, slackVars >>

\* the upstream call of callback i settles and the callback runs to its return
ModelCallSettles(i, outcome) ==
  /\ i \in DOMAIN promises
  /\ promises[i].state = "pending"
  /\ outcomes' = [outcomes EXCEPT ![i] = Some(outcome)]
  /\ promises' = [promises EXCEPT ![i] = ModelCallback(models[i], outcome, modelStart[i], now)]
  /\ UNCHANGED << request, envKey, now, pc, apiKey, orchestratorId, startTime, models,
                  modelStart, calls, responses, synthesis, result, thrown >>
  /\ UNCHANGED << pricing, followUp, parked, dbVars, slackVars >>

\* the all-failed ResearchResult
AllFailedResult(req, rs, ms, orch, start, t) ==
  [query |-> req.query,
   responses |-> rs,
   synthesis |-> AllFailedSynthesis,
   totalDurationMs |-> t - start,
   modelCount |-> Len(ms),
   successCount |-> 0,
   totalCost |-> None,
   timestamp |-> Some(ToISOString(t)),
   orchestrator |-> Some(orch)]

\* the full result counting every response as a success
FullResult_CountsAll(req, rs, ms, orch, start, t, text) ==
  [query |-> req.query,
   responses |-> rs,
   synthesis |-> text,
   totalDurationMs |-> t - start,
   modelCount |-> Len(ms),
   successCount |-> Len(rs),
   totalCost |-> Some(SumCost(rs)),
   timestamp |-> Some(ToISOString(t)),
   orchestrator |-> Some(OrchestratorName(orch))]

\* the full ResearchResult
FullResult(req, rs, ms, orch, start, t, text) ==
  [query |-> req.query,
   responses |-> rs,
   synthesis |-> text,
   totalDurationMs |-> t - start,
   modelCount |-> Len(ms),
   successCount |-> Len(Successful(rs)),
   totalCost |-> Some(SumCost(rs)),
   timestamp |-> Some(ToISOString(t)),
   orchestrator |-> Some(OrchestratorName(orch))]

\* the all-failed check dropped: the synthesis call is issued even when no
\* response succeeded
Join_AlwaysSynthesize ==
  /\ pc = "awaitAll"
  /\ PromiseAllState(promises) = "fulfilled"
  /\ LET rs == [i \in DOMAIN promises |-> Get(promises[i].value)]
     IN  /\ responses' = Some(rs)
         /\ pc' = "awaitSynthesis"
         /\ calls' = Append(calls,
                       OrchestratorOptions(Get(orchestratorId), request, Successful(rs)))
         /\ synthesis' = Some(Pending)
  /\ UNCHANGED << request, envKey, now, apiKey, orchestratorId, startTime, models,
                  modelStart, promises, outcomes, result, thrown >>
  /\ UNCHANGED << pricing, followUp, parked, dbVars, slackVars >>

\* a deadline on the join: while a call is still in flight the round may
\* give up and throw
Join_Timeout ==
  /\ pc = "awaitAll"
  /\ IF PromiseAllState(promises) = "pending"
     THEN /\ pc' = "threw"
          /\ thrown' = Some(JsError("timeout", "Error: timeout"))
          /\ UNCHANGED << responses, calls, synthesis, result >>
     ELSE LET rs == [i \in DOMAIN promises |-> Get(promises[i].value)]
          IN  /\ responses' = Some(rs)
              /\ IF Len(Successful(rs)) = 0
                 THEN /\ pc' = "returned"
                      /\ result' = Some(AllFailedResult(request, rs, models,
                                          Get(orchestratorId), Get(startTime), now))
                      /\ UNCHANGED << calls, synthesis, thrown >>
                 ELSE /\ pc' = "awaitSynthesis"
                      /\ calls' = Append(calls,
                                    OrchestratorOptions(Get(orchestratorId), request, Successful(rs)))
                      /\ synthesis' = Some(Pending)
                      /\ UNCHANGED << result, thrown >>
  /\ UNCHANGED << request, envKey, now, apiKey, orchestratorId, startTime, models,
                  modelStart, promises, outcomes >>
  /\ UNCHANGED << pricing, followUp, parked, dbVars, slackVars >>

\* runResearch resumes from await Promise.all: it rethrows a rejection, or
\* returns the all-failed result, or issues the synthesis call
Join ==
  /\ pc = "awaitAll"
  /\ PromiseAllState(promises) # "pending"
  /\ IF PromiseAllState(promises) = "rejected"
     THEN /\ \E i \in DOMAIN promises :
                /\ promises[i].state = "rejected"
                /\ thrown' = promises[i].reason
          /\ pc' = "threw"
          /\ UNCHANGED << responses, calls, synthesis, result >>
     ELSE LET rs == [i \in DOMAIN promises |-> Get(promises[i].value)]
          IN  /\ responses' = Some(rs)
              /\ IF Len(Successful(rs)) = 0
                 THEN /\ pc' = "returned"
                      /\ result' = Some(AllFailedResult(request, rs, models,
                                          Get(orchestratorId), Get(startTime), now))
                      /\ UNCHANGED << calls, synthesis, thrown >>
                 ELSE /\ pc' = "awaitSynthesis"
                      /\ calls' = Append(calls,
                                    OrchestratorOptions(Get(orchestratorId), request, Successful(rs)))
                      /\ synthesis' = Some(Pending)
                      /\ UNCHANGED << result, thrown >>
  /\ UNCHANGED << request, envKey, now, apiKey, orchestratorId, startTime, models,
                  modelStart, promises, outcomes >>
  /\ UNCHANGED << pricing, followUp, parked, dbVars, slackVars >>

\* the synthesis call resolves: runResearch returns the full result
SynthesisReturns(text) ==
  /\ pc = "awaitSynthesis"
  /\ synthesis' = Some(Fulfilled(text))
  /\ result' = Some(FullResult(request, Get(responses), models, Get(orchestratorId),
                               Get(startTime), now, text))
  /\ pc' = "returned"
  /\ UNCHANGED << request, envKey, now, apiKey, orchestratorId, startTime, models,
                  modelStart, promises, calls, outcomes, responses, thrown >>
  /\ UNCHANGED << pricing, followUp, parked, dbVars, slackVars >>

\* a fallback path: a failed synthesis call yields a result with a stock text
SynthesisThrows_Fallback(err) ==
  /\ pc = "awaitSynthesis"
  /\ synthesis' = Some(Rejected(err))
  /\ result' = Some(FullResult(request, Get(responses), models, Get(orchestratorId),
                               Get(startTime), now, AllFailedSynthesis))
  /\ pc' = "returned"
  /\ UNCHANGED << request, envKey, now, apiKey, orchestratorId, startTime, models,
                  modelStart, promises, calls, outcomes, responses, thrown >>
  /\ UNCHANGED << pricing, followUp, parked, dbVars, slackVars >>

\* the synthesis call rejects: the await rethrows out of runResearch
SynthesisThrows(err) ==
  /\ pc = "awaitSynthesis"
  /\ synthesis' = Some(Rejected(err))
  /\ thrown' = Some(err)
  /\ pc' = "threw"
  /\ UNCHANGED << request, envKey, now, apiKey, orchestratorId, startTime, models,
                  modelStart, promises, calls, outcomes, responses, result >>
  /\ UNCHANGED << pricing, followUp, parked, dbVars, slackVars >>

Next ==
  \/ Tick
  \/ Start
  \/ \E i \in 1..Len(DEFAULT_MODELS) + MaxIds, o \in ModelOutcomes : ModelCallSettles(i, o)
  \/ Join
  \/ \E t \in SynthesisTexts : SynthesisReturns(t)
  \/ \E e \in ThrownValues : SynthesisThrows(e)

Spec == Init /\ [][Next]_vars

\* ------------------------------------------ rounds whose calls all settle
\* the default list, a two-model list and a list with an unknown id
LiveRequests ==
  [query : Queries,
   images : { None },
   modelIds : { None,
                Some(<< "anthropic/claude-haiku-4.5:online", "openai/o3:online" >>),
                Some(<< "unknown/model" >>) },
   orchestratorId : { None },
   apiKey : { None },
   byokMode : { None }]

InitLive ==
  /\ request \in LiveRequests
  /\ envKey \in EnvKeyChoices
  /\ now = 0
  /\ AtEntry
  /\ pricing = None
  /\ followUp = None
  /\ parked = None
  /\ DbIdle
  /\ SlackIdle

\* the event loop runs every continuation that is ready (the entry of
\* runResearch, the resumption after await Promise.all), and every upstream
\* call, of a model or of the orchestrator, eventually settles
Fairness ==
  /\ WF_vars(Start)
  /\ WF_vars(Join)
  /\ \A i \in 1..Len(DEFAULT_MODELS) + MaxIds :
       WF_vars(\E o \in ModelOutcomes : ModelCallSettles(i, o))
  /\ WF_vars(\/ \E t \in SynthesisTexts : SynthesisReturns(t)
             \/ \E e \in ThrownValues : SynthesisThrows(e))

SpecLive == InitLive /\ [][Next]_vars /\ Fairness

\* ------------------------------------------- rounds over the registry
\* one request per model of the registry, so that every reasoning mode occurs
RegistryRequests ==
  [query : Queries,
   images : { None },
   modelIds : { Some(<< id >>) : id \in RegistryIds },
   orchestratorId : { None },
   apiKey : { None },
   byokMode : { None }]

InitRegistry ==
  /\ request \in RegistryRequests
  /\ envKey = Some("sk-or-server")
  /\ now = 0
  /\ AtEntry
  /\ pricing = None
  /\ followUp = None
  /\ parked = None
  /\ DbIdle
  /\ SlackIdle

SpecRegistry == InitRegistry /\ [][Next]_vars

\* ------------------------------------------------ rounds with long queries
\* query lengths around the 200 characters the synthesis prompt quotes
QueryLengths == { 3, 199, 200, 201, 260 }

\* a query of n characters: 'a' up to the 200th, 'b' from the 201st on
LongQuery(n) == [i \in 1..n |-> IF i <= 200 THEN "a" ELSE "b"]

LongQueryRequests ==
  [query : { LongQuery(n) : n \in QueryLengths },
   images : { None },
   modelIds : { Some(<< "anthropic/claude-haiku-4.5:online", "openai/o3:online" >>) },
   orchestratorId : { None },
   apiKey : { None },
   byokMode : { None }]

InitLongQuery ==
  /\ request \in LongQueryRequests
  /\ envKey = Some("sk-or-server")
  /\ now = 0
  /\ AtEntry
  /\ pricing = None
  /\ followUp = None
  /\ parked = None
  /\ DbIdle
  /\ SlackIdle

SpecLongQuery == InitLongQuery /\ [][Next]_vars

\* ------------------------------------------------ rounds with attachments
\* longest request.images list drawn
MaxImages == 2

ImagePool ==
  { [mimeType |-> "image/png", base64 |-> "AAAA"],
    [mimeType |-> "image/jpeg", base64 |-> "BBBB"] }

\* requests with no, an empty and every short list of attachments, sent to
\* a vision model, to a non-vision model, or to both
BuildRequests ==
  [query : { << "w", "h", "y" >>, << "how?" >> },
   images : { None } \cup { Some(imgs) : imgs \in SeqUpTo(ImagePool, MaxImages) },
   modelIds : { Some(<< "anthropic/claude-haiku-4.5:online" >>),
                Some(<< "openai/o3:online" >>),
                Some(<< "openai/o3:online", "anthropic/claude-haiku-4.5:online" >>) },
   orchestratorId : { None },
   apiKey : { None },
   byokMode : { None }]

InitBuild ==
  /\ request \in BuildRequests
  /\ envKey = Some("sk-or-server")
  /\ now = 0
  /\ AtEntry
  /\ pricing = None
  /\ followUp = None
  /\ parked = None
  /\ DbIdle
  /\ SlackIdle

SpecBuild == InitBuild /\ [][Next]_vars

\* ------------------------------------------------------------ follow-up
FOLLOWUP_MODEL == "anthropic/claude-haiku-4.5:online"

FOLLOWUP_SYSTEM_PROMPT ==
  << "You are a helpful research assistant with web search. Give concise, substantive answers. Search for current info when needed." >>

\* JavaScript truthiness of an optional text (undefined and '' are falsy)
TruthyText(o) == IsSome(o) /\ StrLength(Get(o)) > 0

\* the context pushed whenever it is defined, the empty string included
FollowUpMessages_AnyContext(query, context) ==
  << [role |-> "system", content |-> FOLLOWUP_SYSTEM_PROMPT] >>
  \o (IF IsSome(context) THEN << [role |-> "assistant", content |-> Get(context)] >> ELSE << >>)
  \o << [role |-> "user", content |-> query] >>

\* the messages array runFollowUp builds
FollowUpMessages(query, context) ==
  << [role |-> "system", content |-> FOLLOWUP_SYSTEM_PROMPT] >>
  \o (IF TruthyText(context) THEN << [role |-> "assistant", content |-> Get(context)] >> ELSE << >>)
  \o << [role |-> "user", content |-> query] >>

\* the options of runFollowUp's generateText call
FollowUpOptions(query, context) ==
  [model |-> FOLLOWUP_MODEL, messages |-> FollowUpMessages(query, context), maxTokens |-> 1000]

FollowUpQueries ==
  { << "w", "h", "y" >>, << "how?" >>, << "more" >>, << "and", " ", "then" >>, << "?" >>, << >> }

\* no context, the empty string, and two summaries of earlier rounds
FollowUpContexts ==
  { None, Some(<< >>), Some(<< "Earlier: ", "answer" >>), Some(<< "synthesis" >>) }

FollowUpTexts == { << >>, << "follow-up answer" >> }

\* runFollowUp(query, context) entered, nothing executed yet
FollowUpEntry(query, context) ==
  [query |-> query, context |-> context, pc |-> "entry", calls |-> << >>,
   outcome |-> None, result |-> None, thrown |-> None]

InitFollowUp ==
  /\ request \in { r \in KeyRequests : r.apiKey = None /\ r.byokMode = None
                                       /\ r.modelIds = Some(<< "unknown/model" >>) }
  /\ envKey = Some("sk-or-server")
  /\ now = 0
  /\ AtEntry
  /\ pricing = None
  /\ followUp \in { Some(FollowUpEntry(q, c)) : q \in FollowUpQueries, c \in FollowUpContexts }
  /\ parked = None
  /\ DbIdle
  /\ SlackIdle

\* runFollowUp up to its await: the messages are built and the call goes out
FollowUpStart ==
  /\ IsSome(followUp)
  /\ Get(followUp).pc = "entry"
  /\ followUp' = Some([Get(followUp) EXCEPT
                         !.pc = "awaitText",
                         !.calls = Append(@, FollowUpOptions(Get(followUp).query,
                                                             Get(followUp).context))])
  /\ UNCHANGED << locals, envKey, now, pricing, parked >>
  /\ UNCHANGED << dbVars, slackVars >>

\* the call resolves: runFollowUp returns result.text
FollowUpReturns(text) ==
  /\ IsSome(followUp)
  /\ Get(followUp).pc = "awaitText"
  /\ followUp' = Some([Get(followUp) EXCEPT
                         !.pc = "returned",
                         !.outcome = Some(GatewayOk(text, None)),
                         !.result = Some(text)])
  /\ UNCHANGED << locals, envKey, now, pricing, parked >>
  /\ UNCHANGED << dbVars, slackVars >>

\* the call rejects: nothing catches it, runFollowUp rejects with the same value
FollowUpThrows(err) ==
  /\ IsSome(followUp)
  /\ Get(followUp).pc = "awaitText"
  /\ followUp' = Some([Get(followUp) EXCEPT
                         !.pc = "threw",
                         !.outcome = Some(GatewayThrow(err)),
                         !.thrown = Some(err)])
  /\ UNCHANGED << locals, envKey, now, pricing, parked >>
  /\ UNCHANGED << dbVars, slackVars >>

NextFollowUp ==
  \/ FollowUpStart
  \/ \E t \in FollowUpTexts : FollowUpReturns(t)
  \/ \E e \in ThrownValues : FollowUpThrows(e)

SpecFollowUp == InitFollowUp /\ [][NextFollowUp]_vars

\* ------------------------------------------------ concurrent invocations
\* the locals of the running invocation, as a record
Invocation ==
  [request |-> request, pc |-> pc, apiKey |-> apiKey, orchestratorId |-> orchestratorId,
   startTime |-> startTime, models |-> models, modelStart |-> modelStart,
   promises |-> promises, calls |-> calls, outcomes |-> outcomes, responses |-> responses,
   synthesis |-> synthesis, result |-> result, thrown |-> thrown]

\* an invocation of runResearch(req) that has not executed anything yet
InvocationAtEntry(req) ==
  [request |-> req, pc |-> "entry", apiKey |-> None, orchestratorId |-> None,
   startTime |-> None, models |-> << >>, modelStart |-> << >>, promises |-> << >>,
   calls |-> << >>, outcomes |-> << >>, responses |-> None, synthesis |-> None,
   result |-> None, thrown |-> None]

\* two requests that differ in the query, the model and the orchestrator
RoundsRequests ==
  { [query |-> << "w", "h", "y" >>, images |-> None,
     modelIds |-> Some(<< "anthropic/claude-haiku-4.5:online" >>),
     orchestratorId |-> None, apiKey |-> None, byokMode |-> None],
    [query |-> << "how?" >>, images |-> None,
     modelIds |-> Some(<< "openai/o3:online" >>),
     orchestratorId |-> Some("openai/gpt-5.1"), apiKey |-> None, byokMode |-> None] }

\* two invocations of runResearch and one of runFollowUp are entered
InitRounds ==
  /\ request \in RoundsRequests
  /\ envKey = Some("sk-or-server")
  /\ now = 0
  /\ AtEntry
  /\ pricing = None
  /\ followUp = Some(FollowUpEntry(<< "more" >>, Some(<< "synthesis" >>)))
  /\ parked \in { Some(InvocationAtEntry(r)) : r \in RoundsRequests }
  /\ DbIdle
  /\ SlackIdle

\* orchestratorId kept in a module-level variable that every invocation shares
Switch_SharedOrchestrator ==
  /\ IsSome(parked)
  /\ parked' = Some(Invocation)
  /\ request' = Get(parked).request
  /\ pc' = Get(parked).pc
  /\ apiKey' = Get(parked).apiKey
  /\ startTime' = Get(parked).startTime
  /\ models' = Get(parked).models
  /\ modelStart' = Get(parked).modelStart
  /\ promises' = Get(parked).promises
  /\ calls' = Get(parked).calls
  /\ outcomes' = Get(parked).outcomes
  /\ responses' = Get(parked).responses
  /\ synthesis' = Get(parked).synthesis
  /\ result' = Get(parked).result
  /\ thrown' = Get(parked).thrown
  /\ UNCHANGED << orchestratorId, envKey, now, pricing, followUp >>
  /\ UNCHANGED << dbVars, slackVars >>

\* the event loop leaves one invocation at its await (or before its first
\* step, or after its last) and runs the other: each invocation has its own
\* locals, the environment and the clock are the same for both
Switch ==
  /\ IsSome(parked)
  /\ parked' = Some(Invocation)
  /\ request' = Get(parked).request
  /\ pc' = Get(parked).pc
  /\ apiKey' = Get(parked).apiKey
  /\ orchestratorId' = Get(parked).orchestratorId
  /\ startTime' = Get(parked).startTime
  /\ models' = Get(parked).models
  /\ modelStart' = Get(parked).modelStart
  /\ promises' = Get(parked).promises
  /\ calls' = Get(parked).calls
  /\ outcomes' = Get(parked).outcomes
  /\ responses' = Get(parked).responses
  /\ synthesis' = Get(parked).synthesis
  /\ result' = Get(parked).result
  /\ thrown' = Get(parked).thrown
  /\ UNCHANGED << envKey, now, pricing, followUp >>
  /\ UNCHANGED << dbVars, slackVars >>

NextRounds ==
  \/ Tick
  \/ Start
  \/ \E i \in 1..Len(DEFAULT_MODELS) + MaxIds, o \in ModelOutcomes : ModelCallSettles(i, o)
  \/ Join
  \/ \E t \in SynthesisTexts : SynthesisReturns(t)
  \/ \E e \in ThrownValues : SynthesisThrows(e)
  \/ Switch
  \/ FollowUpStart
  \/ \E t \in FollowUpTexts : FollowUpReturns(t)
  \/ \E e \in ThrownValues : FollowUpThrows(e)

SpecRounds == InitRounds /\ [][NextRounds]_vars

\* ------------------------------------------------------ credit deduction
\* most deductions under way at once
MaxDeductions == 2

UserRow(credits, spent) == [credits_cents |-> credits, total_spent_cents |-> spent]

\* the WHERE clause without the balance condition
DeductStatement_NoBalanceCheck(table, userId, costCents) ==
  IF userId \in DOMAIN table
  THEN [table |-> [table EXCEPT ![userId] =
                     UserRow(@.credits_cents - costCents, @.total_spent_cents + costCents)],
        rows |-> << [credits_cents |-> table[userId].credits_cents - costCents] >>]
  ELSE [table |-> table, rows |-> << >>]

\* UPDATE users SET credits_cents = credits_cents - cost,
\*                  total_spent_cents = total_spent_cents + cost
\* WHERE id = userId AND credits_cents >= cost RETURNING credits_cents
\* one statement, executed atomically: the table after it and the rows returned
DeductStatement(table, userId, costCents) ==
  IF userId \in DOMAIN table /\ table[userId].credits_cents >= costCents
  THEN [table |-> [table EXCEPT ![userId] =
                     UserRow(@.credits_cents - costCents, @.total_spent_cents + costCents)],
        rows |-> << [credits_cents |-> table[userId].credits_cents - costCents] >>]
  ELSE [table |-> table, rows |-> << >>]

\* getUserCredits: SELECT credits_cents, total_spent_cents FROM users WHERE id = userId
getUserCredits(table, userId) ==
  IF userId \in DOMAIN table
  THEN Some([creditsCents |-> table[userId].credits_cents,
             totalSpentCents |-> table[userId].total_spent_cents])
  ELSE None

\* the result object of deductUserCredits
DeductResult(success, creditsCents, message) ==
  [success |-> success, creditsCents |-> creditsCents, message |-> message]

\* a call of deductCredits or deductUserCredits that has not executed
\* anything, for a user with a row or for one without
DeductCalls ==
  [fn : { "deductCredits", "deductUserCredits" }, userId : { "user_a", "user_missing" },
   costCents : { 0, 4, 7 }, pc : { "called" }, current : { None }, ret : { None }]

InitCredits ==
  /\ request \in { r \in KeyRequests : r.apiKey = None /\ r.byokMode = None
                                       /\ r.modelIds = Some(<< "unknown/model" >>) }
  /\ envKey = None
  /\ now = 0
  /\ AtEntry
  /\ pricing = None
  /\ followUp = None
  /\ parked = None
  /\ users \in { [u \in { "user_a" } |-> UserRow(b, sp)] : b \in { 0, 10 }, sp \in { 0, 7 } }
  /\ referral_codes = {}
  /\ referral_redemptions = {}
  /\ dbCalls \in UNION { [1..n -> DeductCalls] : n \in 1..MaxDeductions }
  /\ SlackIdle

\* deductCredits: the one UPDATE, then null or the new balance
DeductCreditsCall(c) ==
  /\ c \in DOMAIN dbCalls
  /\ dbCalls[c].fn = "deductCredits"
  /\ dbCalls[c].pc = "called"
  /\ LET stmt == DeductStatement(users, dbCalls[c].userId, dbCalls[c].costCents)
     IN  /\ users' = stmt.table
         /\ dbCalls' = [dbCalls EXCEPT
                          ![c].pc = "done",
                          ![c].ret = Some(IF Len(stmt.rows) = 0 THEN None
                                          ELSE Some(stmt.rows[1].credits_cents))]
  /\ UNCHANGED << locals, envKey, now, pricing, followUp, parked, referral_codes,
                  referral_redemptions, slackVars >>

\* deductUserCredits up to its UPDATE: the balance is read and checked
DeductUserCreditsSelect(c) ==
  /\ c \in DOMAIN dbCalls
  /\ dbCalls[c].fn = "deductUserCredits"
  /\ dbCalls[c].pc = "called"
  /\ LET current == getUserCredits(users, dbCalls[c].userId)
     IN  dbCalls' =
           IF ~IsSome(current)
           THEN [dbCalls EXCEPT ![c].pc = "done",
                                ![c].ret = Some(DeductResult(FALSE, 0, Some("User not found")))]
           ELSE IF Get(current).creditsCents < dbCalls[c].costCents
           THEN [dbCalls EXCEPT ![c].pc = "done",
                                ![c].current = current,
                                ![c].ret = Some(DeductResult(FALSE, Get(current).creditsCents,
                                                             Some("Insufficient credits")))]
           ELSE [dbCalls EXCEPT ![c].pc = "update", ![c].current = current]
  /\ UNCHANGED << locals, envKey, now, pricing, followUp, parked, users, referral_codes,
                  referral_redemptions, slackVars >>

\* deductUserCredits from its UPDATE on
DeductUserCreditsUpdate(c) ==
  /\ c \in DOMAIN dbCalls
  /\ dbCalls[c].fn = "deductUserCredits"
  /\ dbCalls[c].pc = "update"
  /\ LET stmt == DeductStatement(users, dbCalls[c].userId, dbCalls[c].costCents)
     IN  /\ users' = stmt.table
         /\ dbCalls' = [dbCalls EXCEPT
                          ![c].pc = "done",
                          ![c].ret =
                            Some(IF Len(stmt.rows) = 0
                                 THEN DeductResult(FALSE, Get(dbCalls[c].current).creditsCents,
                                                   Some("Insufficient credits"))
                                 ELSE DeductResult(TRUE, stmt.rows[1].credits_cents, None))]
  /\ UNCHANGED << locals, envKey, now, pricing, followUp, parked, referral_codes,
                  referral_redemptions, slackVars >>

NextCredits ==
  \E c \in 1..MaxDeductions :
    \/ DeductCreditsCall(c)
    \/ DeductUserCreditsSelect(c)
    \/ DeductUserCreditsUpdate(c)

SpecCredits == InitCredits /\ [][NextCredits]_vars

\* ------------------------------------------------------- referral codes
\* most referral calls under way at once
MaxReferralCalls == 2

REFERRAL_CREDITS_CENTS == 800
\* referral_codes.uses_remaining DEFAULT 8
DEFAULT_USES_REMAINING == 8
maxAttempts == 10

\* generateCode: every code a call can come back with, for the picks of
\* three random emojis that the model tells apart
generateCode(initials) ==
  { "EACHIE-WITH-ME-" \o initials \o emojis :
      emojis \in { "[spider][target][books]", "[butterfly][brain][owl]" } }

Referrer == "user_alice"
ReferrerInitials == "AL"
NewUsers == { "user_bob", "user_carol" }
Friends ==
  << "user_f1", "user_f2", "user_f3", "user_f4", "user_f5", "user_f6", "user_f7", "user_f8" >>

CodeRow(code, userId, uses, total) ==
  [code |-> code, user_id |-> userId, uses_remaining |-> uses, total_uses |-> total]

RedemptionRow(code, redeemedBy, referrer) ==
  [code |-> code, redeemed_by |-> redeemedBy, referrer_user_id |-> referrer,
   credits_cents |-> REFERRAL_CREDITS_CENTS]

\* addCredits: UPDATE users SET credits_cents = credits_cents + n WHERE id = userId
addCredits(table, userId, creditsCents) ==
  IF userId \in DOMAIN table
  THEN [table EXCEPT ![userId].credits_cents = @ + creditsCents]
  ELSE table

\* DELETE FROM referral_codes WHERE user_id = userId
DeleteCodesOf(codes, userId) == { r \in codes : r.user_id # userId }

\* ON DELETE CASCADE of referral_redemptions.code
CascadeRedemptions(redemptions, codes) ==
  { d \in redemptions : \E r \in codes : r.code = d.code }

\* UPDATE referral_codes SET uses_remaining = uses_remaining - 1,
\*                           total_uses = total_uses + 1 WHERE code = code
DecrementUses(codes, code) ==
  { IF r.code = code
    THEN CodeRow(r.code, r.user_id, r.uses_remaining - 1, r.total_uses + 1)
    ELSE r : r \in codes }

\* the RedeemResult object of a rejected redemption
RedeemFailure(error) ==
  [success |-> FALSE, error |-> Some(error), creditsAdded |-> None, referrerUserId |-> None]

ReferralCall(fn, userId, code) ==
  [fn |-> fn, userId |-> userId, code |-> code, pc |-> "called", attempts |-> 0,
   referralCode |-> None, ret |-> None, thrown |-> None]

ReferralCalls ==
  { ReferralCall(fn, Referrer, "") :
      fn \in { "getOrCreateReferralCode", "regenerateReferralCode" } }
  \cup { ReferralCall("redeemReferralCode", u, code) :
           u \in NewUsers \cup { Referrer }, code \in generateCode(ReferrerInitials) }

\* the tables after the referrer's code was redeemed by k friends, one after
\* the other
TablesAfter(code, k) ==
  [users |-> [u \in { Referrer } \cup NewUsers \cup { Friends[i] : i \in 1..k } |->
                IF u = Referrer THEN UserRow(k * REFERRAL_CREDITS_CENTS, 0)
                ELSE IF u \in NewUsers THEN UserRow(0, 0)
                ELSE UserRow(REFERRAL_CREDITS_CENTS, 0)],
   referral_codes |-> { CodeRow(code, Referrer, DEFAULT_USES_REMAINING - k, k) },
   referral_redemptions |-> { RedemptionRow(code, Friends[i], Referrer) : i \in 1..k }]

InitReferral ==
  /\ request \in { r \in KeyRequests : r.apiKey = None /\ r.byokMode = None
                                       /\ r.modelIds = Some(<< "unknown/model" >>) }
  /\ envKey = None
  /\ now = 0
  /\ AtEntry
  /\ pricing = None
  /\ followUp = None
  /\ parked = None
  /\ \E t \in { [users |-> [u \in { Referrer } \cup NewUsers |-> UserRow(0, 0)],
                 referral_codes |-> {},
                 referral_redemptions |-> {}] }
              \cup { TablesAfter(code, k) : code \in generateCode(ReferrerInitials),
                                            k \in { 0, 7, 8 } } :
       /\ users = t.users
       /\ referral_codes = t.referral_codes
       /\ referral_redemptions = t.referral_redemptions
  /\ dbCalls \in [1..MaxReferralCalls -> ReferralCalls]
  /\ SlackIdle

\* getOrCreateReferralCode up to its INSERT: the existing code is returned,
\* or a first code is generated
GetOrCreateSelect(c) ==
  /\ c \in DOMAIN dbCalls
  /\ dbCalls[c].fn = "getOrCreateReferralCode"
  /\ dbCalls[c].pc = "called"
  /\ LET existing == { r \in referral_codes : r.user_id = dbCalls[c].userId }
     IN  IF existing # {}
         THEN \E r \in existing :
                dbCalls' = [dbCalls EXCEPT ![c].pc = "done", ![c].ret = Some(r.code)]
         ELSE \E code \in generateCode(ReferrerInitials) :
                dbCalls' = [dbCalls EXCEPT ![c].pc = "insert", ![c].code = code]
  /\ UNCHANGED << users, referral_codes, referral_redemptions >>
  /\ UNCHANGED << locals, envKey, now, pricing, followUp, parked, slackVars >>

\* regenerateReferralCode up to its INSERT: the user's rows are deleted and
\* a first code is generated
RegenerateDelete(c) ==
  /\ c \in DOMAIN dbCalls
  /\ dbCalls[c].fn = "regenerateReferralCode"
  /\ dbCalls[c].pc = "called"
  /\ referral_codes' = DeleteCodesOf(referral_codes, dbCalls[c].userId)
  /\ referral_redemptions' = CascadeRedemptions(referral_redemptions, referral_codes')
  /\ \E code \in generateCode(ReferrerInitials) :
       dbCalls' = [dbCalls EXCEPT ![c].pc = "insert", ![c].code = code]
  /\ UNCHANGED users
  /\ UNCHANGED << locals, envKey, now, pricing, followUp, parked, slackVars >>

\* one turn of the insert loop of either function: INSERT INTO
\* referral_codes (code, user_id); a duplicate key generates a new code and
\* counts an attempt, and the loop ends with a throw at maxAttempts
InsertReferralCode(c) ==
  /\ c \in DOMAIN dbCalls
  /\ dbCalls[c].fn \in { "getOrCreateReferralCode", "regenerateReferralCode" }
  /\ dbCalls[c].pc = "insert"
  /\ IF \A r \in referral_codes : r.code # dbCalls[c].code
     THEN /\ referral_codes' = referral_codes \cup
                { CodeRow(dbCalls[c].code, dbCalls[c].userId, DEFAULT_USES_REMAINING, 0) }
          /\ dbCalls' = [dbCalls EXCEPT ![c].pc = "done", ![c].ret = Some(dbCalls[c].code)]
     ELSE /\ referral_codes' = referral_codes
          /\ IF dbCalls[c].attempts + 1 < maxAttempts
             THEN \E code \in generateCode(ReferrerInitials) :
                    dbCalls' = [dbCalls EXCEPT ![c].code = code, ![c].attempts = @ + 1]
             ELSE dbCalls' =
                    [dbCalls EXCEPT
                       ![c].pc = "done",
                       ![c].attempts = @ + 1,
                       ![c].thrown = Some("Could not generate unique referral code after multiple attempts")]
  /\ UNCHANGED << users, referral_redemptions >>
  /\ UNCHANGED << locals, envKey, now, pricing, followUp, parked, slackVars >>

\* redeemReferralCode: has this user redeemed any code?
RedeemCheckExisting(c) ==
  /\ c \in DOMAIN dbCalls
  /\ dbCalls[c].fn = "redeemReferralCode"
  /\ dbCalls[c].pc = "called"
  /\ dbCalls' =
       IF \E d \in referral_redemptions : d.redeemed_by = dbCalls[c].userId
       THEN [dbCalls EXCEPT ![c].pc = "done",
                            ![c].ret = Some(RedeemFailure("You've already used a friend code"))]
       ELSE [dbCalls EXCEPT ![c].pc = "selectCode"]
  /\ UNCHANGED << users, referral_codes, referral_redemptions >>
  /\ UNCHANGED << locals, envKey, now, pricing, followUp, parked, slackVars >>

\* redeemReferralCode: the code's row is read and checked
RedeemSelectCode(c) ==
  /\ c \in DOMAIN dbCalls
  /\ dbCalls[c].fn = "redeemReferralCode"
  /\ dbCalls[c].pc = "selectCode"
  /\ LET codeResult == { r \in referral_codes : r.code = dbCalls[c].code }
     IN  IF codeResult = {}
         THEN dbCalls' = [dbCalls EXCEPT ![c].pc = "done",
                                         ![c].ret = Some(RedeemFailure("Invalid code"))]
         ELSE \E referralCode \in codeResult :
                dbCalls' =
                  IF referralCode.user_id = dbCalls[c].userId
                  THEN [dbCalls EXCEPT
                          ![c].pc = "done",
                          ![c].referralCode = Some(referralCode),
                          ![c].ret = Some(RedeemFailure("You can't use your own code"))]
                  ELSE IF referralCode.uses_remaining <= 0
                  THEN [dbCalls EXCEPT
                          ![c].pc = "done",
                          ![c].referralCode = Some(referralCode),
                          ![c].ret = Some(RedeemFailure("This code has no more uses"))]
                  ELSE [dbCalls EXCEPT ![c].pc = "insert",
                                       ![c].referralCode = Some(referralCode)]
  /\ UNCHANGED << users, referral_codes, referral_redemptions >>
  /\ UNCHANGED << locals, envKey, now, pricing, followUp, parked, slackVars >>

\* redeemReferralCode: INSERT INTO referral_redemptions; UNIQUE(redeemed_by)
\* gives the already-used failure, a code row deleted meanwhile breaks the
\* foreign key and the error is rethrown
RedeemInsert(c) ==
  /\ c \in DOMAIN dbCalls
  /\ dbCalls[c].fn = "redeemReferralCode"
  /\ dbCalls[c].pc = "insert"
  /\ IF \E d \in referral_redemptions : d.redeemed_by = dbCalls[c].userId
     THEN /\ referral_redemptions' = referral_redemptions
          /\ dbCalls' = [dbCalls EXCEPT
                           ![c].pc = "done",
                           ![c].ret = Some(RedeemFailure("You've already used a friend code"))]
     ELSE IF \A r \in referral_codes : r.code # dbCalls[c].code
     THEN /\ referral_redemptions' = referral_redemptions
          /\ dbCalls' = [dbCalls EXCEPT
                           ![c].pc = "done",
                           ![c].thrown = Some("violates foreign key constraint")]
     ELSE /\ referral_redemptions' = referral_redemptions \cup
                { RedemptionRow(dbCalls[c].code, dbCalls[c].userId,
                                Get(dbCalls[c].referralCode).user_id) }
          /\ dbCalls' = [dbCalls EXCEPT ![c].pc = "decrement"]
  /\ UNCHANGED << users, referral_codes >>
  /\ UNCHANGED << locals, envKey, now, pricing, followUp, parked, slackVars >>

\* redeemReferralCode: the unconditional decrement
RedeemDecrement(c) ==
  /\ c \in DOMAIN dbCalls
  /\ dbCalls[c].fn = "redeemReferralCode"
  /\ dbCalls[c].pc = "decrement"
  /\ referral_codes' = DecrementUses(referral_codes, dbCalls[c].code)
  /\ dbCalls' = [dbCalls EXCEPT ![c].pc = "creditNewUser"]
  /\ UNCHANGED << users, referral_redemptions >>
  /\ UNCHANGED << locals, envKey, now, pricing, followUp, parked, slackVars >>

\* redeemReferralCode: addCredits(newUserId, 800)
RedeemCreditNewUser(c) ==
  /\ c \in DOMAIN dbCalls
  /\ dbCalls[c].fn = "redeemReferralCode"
  /\ dbCalls[c].pc = "creditNewUser"
  /\ users' = addCredits(users, dbCalls[c].userId, REFERRAL_CREDITS_CENTS)
  /\ dbCalls' = [dbCalls EXCEPT ![c].pc = "creditReferrer"]
  /\ UNCHANGED << referral_codes, referral_redemptions >>
  /\ UNCHANGED << locals, envKey, now, pricing, followUp, parked, slackVars >>

\* redeemReferralCode: addCredits(referralCode.user_id, 800) and the success
\* result
RedeemCreditReferrer(c) ==
  /\ c \in DOMAIN dbCalls
  /\ dbCalls[c].fn = "redeemReferralCode"
  /\ dbCalls[c].pc = "creditReferrer"
  /\ users' = addCredits(users, Get(dbCalls[c].referralCode).user_id, REFERRAL_CREDITS_CENTS)
  /\ dbCalls' = [dbCalls EXCEPT
                   ![c].pc = "done",
                   ![c].ret = Some([success |-> TRUE, error |-> None,
                                    creditsAdded |-> Some(REFERRAL_CREDITS_CENTS),
                                    referrerUserId |->
                                      Some(Get(dbCalls[c].referralCode).user_id)])]
  /\ UNCHANGED << referral_codes, referral_redemptions >>
  /\ UNCHANGED << locals, envKey, now, pricing, followUp, parked, slackVars >>

NextReferral ==
  \E c \in 1..MaxReferralCalls :
    \/ GetOrCreateSelect(c)
    \/ RegenerateDelete(c)
    \/ InsertReferralCode(c)
    \/ RedeemCheckExisting(c)
    \/ RedeemSelectCode(c)
    \/ RedeemInsert(c)
    \/ RedeemDecrement(c)
    \/ RedeemCreditNewUser(c)
    \/ RedeemCreditReferrer(c)

SpecReferral == InitReferral /\ [][NextReferral]_vars

\* ------------------------------------------------------------ Slack bot
\* most Slack events being handled at once
MaxSlackEvents == 3
\* expiresAt: Date.now() + 10 * 60 * 1000
PendingTtlMs == 10 * 60 * 1000

\* event.text is a sequence of chunks: a user mention, white space, words
\* text.replace(/<@[A-Z0-9]+>/gi, '')
StripMentions(text) == SelectSeq(text, LAMBDA chunk : chunk \notin { "<@U1>", "<@u2>" })

\* String.prototype.trim
Trim(text) ==
  LET kept == { i \in DOMAIN text : text[i] \notin { " ", "\n" } }
  IN  IF kept = {} THEN << >>
      ELSE SubSeq(text, CHOOSE i \in kept : \A j \in kept : i <= j,
                        CHOOSE i \in kept : \A j \in kept : i >= j)

\* String.prototype.toLowerCase on the reply texts
toLowerCase(text) ==
  [i \in DOMAIN text |->
     CASE text[i] = "Skip Questions" -> "skip questions"
       [] text[i] = "Skip" -> "skip"
       [] OTHER -> text[i]]

\* queryText of processAppMention
QueryText(text, hasImages) ==
  IF Len(text) > 0 THEN text
  ELSE IF hasImages THEN << "What is in this image? Describe and analyze it." >>
  ELSE << >>

\* enhancedQuery of processThreadReply
EnhancedQuery(query, answer) == query \o << "\n\n---\nAdditional context: " >> \o answer

MapSet(map, key, value) ==
  [k \in DOMAIN map \cup { key } |-> IF k = key THEN value ELSE map[k]]
MapDelete(map, key) == [k \in DOMAIN map \ { key } |-> map[k]]

\* cleanupPending
cleanupPending(map, time) ==
  [k \in { t \in DOMAIN map : ~(map[t].expiresAt < time) } |-> map[k]]

SlackEvent(type, thread, text, files) ==
  [type |-> type, thread |-> thread, text |-> text, files |-> files, pc |-> "received",
   images |-> 0, query |-> << >>]

\* the events the model tells apart: mentions open thread t1 (their own
\* ts), replies carry a thread_ts
SlackEventInputs ==
  << SlackEvent("app_mention", "t1", << "<@U1>", " ", "compare x and y" >>, 0),
     SlackEvent("app_mention", "t1", << "<@U1>", " " >>, 1),
     SlackEvent("app_mention", "t1", << "<@U1>", " " >>, 0),
     SlackEvent("message", "t1", << "Skip Questions" >>, 0),
     SlackEvent("message", "t1", << "since 2020" >>, 0),
     SlackEvent("message", "t2", << "since 2020" >>, 0) >>

InitSlack ==
  /\ request \in { r \in KeyRequests : r.apiKey = None /\ r.byokMode = None
                                       /\ r.modelIds = Some(<< "unknown/model" >>) }
  /\ envKey = None
  /\ now = 0
  /\ AtEntry
  /\ pricing = None
  /\ followUp = None
  /\ parked = None
  /\ DbIdle
  /\ pendingClarifications = << >>
  /\ \E pick \in [1..MaxSlackEvents -> DOMAIN SlackEventInputs] :
       /\ \A i \in 1..(MaxSlackEvents - 1) : pick[i] <= pick[i + 1]
       /\ slackEvents = [i \in 1..MaxSlackEvents |-> SlackEventInputs[pick[i]]]
  /\ slackLog = {}

\* the wall clock, a minute more than an entry is kept at a time; time that
\* passes while no entry is waiting to expire changes nothing the handlers
\* can see
SlackTick ==
  /\ \E t \in DOMAIN pendingClarifications : ~(pendingClarifications[t].expiresAt < now)
  /\ now' = now + PendingTtlMs + 60 * 1000
  /\ UNCHANGED slackVars
  /\ UNCHANGED << locals, envKey, pricing, followUp, parked, dbVars >>

\* processAppMention up to its first await
ProcessAppMentionStart(e) ==
  /\ e \in DOMAIN slackEvents
  /\ slackEvents[e].type = "app_mention"
  /\ slackEvents[e].pc = "received"
  /\ pendingClarifications' = cleanupPending(pendingClarifications, now)
  /\ LET text == Trim(StripMentions(slackEvents[e].text))
     IN  slackEvents' =
           IF Len(text) = 0 /\ slackEvents[e].files = 0
           THEN [slackEvents EXCEPT ![e].pc = "postHelp"]
           ELSE [slackEvents EXCEPT ![e].pc = "questions", ![e].text = text]
  /\ UNCHANGED << now, slackLog >>
  /\ UNCHANGED << locals, envKey, pricing, followUp, parked, dbVars >>

\* processAppMention from the image downloads (each resolves with an image
\* or with null) to the return of getClarifyingQuestions (the empty list
\* also stands for its catch branch): with questions the clarification is
\* stored, without the research runs at once
ClarifyingQuestionsReturn(e) ==
  /\ e \in DOMAIN slackEvents
  /\ slackEvents[e].pc = "questions"
  /\ \E images \in 0..slackEvents[e].files, questions \in { << >>, << "Which timeframe?", "Which region?" >> } :
       LET queryText == QueryText(slackEvents[e].text, images > 0)
       IN  IF Len(questions) > 0
           THEN /\ pendingClarifications' =
                     MapSet(pendingClarifications, slackEvents[e].thread,
                            [query |-> queryText,
                             images |-> images,
                             questions |-> questions,
                             channel |-> "C1",
                             expiresAt |-> now + PendingTtlMs])
                /\ slackEvents' = [slackEvents EXCEPT ![e].pc = "postLast",
                                                      ![e].images = images,
                                                      ![e].query = queryText]
                /\ slackLog' = slackLog \cup { [what |-> "pendingSet", event |-> e, thread |-> slackEvents[e].thread] }
           ELSE /\ pendingClarifications' = pendingClarifications
                /\ slackEvents' = [slackEvents EXCEPT ![e].pc = "postResearching",
                                                      ![e].images = images,
                                                      ![e].query = queryText]
                /\ slackLog' = slackLog
  /\ UNCHANGED now
  /\ UNCHANGED << locals, envKey, pricing, followUp, parked, dbVars >>

\* the entry stays in the map
ProcessThreadReplyStart_NoDelete(e) ==
  /\ e \in DOMAIN slackEvents
  /\ slackEvents[e].type = "message"
  /\ slackEvents[e].pc = "received"
  /\ LET threadTs == slackEvents[e].thread
     IN  IF (threadTs \in DOMAIN pendingClarifications)
         THEN LET pending == pendingClarifications[threadTs]
                  userAnswer == toLowerCase(slackEvents[e].text)
              IN  /\ pendingClarifications' = pendingClarifications
                  /\ slackEvents' =
                       IF userAnswer \in { << "skip" >>, << "skip questions" >> }
                       THEN [slackEvents EXCEPT ![e].pc = "postResearching",
                                                ![e].query = pending.query,
                                                ![e].images = pending.images]
                       ELSE [slackEvents EXCEPT
                               ![e].pc = "postResearching",
                               ![e].query = EnhancedQuery(pending.query, slackEvents[e].text),
                               ![e].images = pending.images]
                  /\ slackLog' = slackLog
         ELSE /\ pendingClarifications' = pendingClarifications
              /\ slackEvents' = [slackEvents EXCEPT ![e].pc = "runFollowUp"]
              /\ slackLog' = slackLog \cup { [what |-> "runFollowUp", event |-> e, thread |-> slackEvents[e].thread] }
  /\ UNCHANGED now
  /\ UNCHANGED << locals, envKey, pricing, followUp, parked, dbVars >>

\* processThreadReply up to its first await: the lookup, the branch on the
\* answer and the delete, or the call of runFollowUp
ProcessThreadReplyStart(e) ==
  /\ e \in DOMAIN slackEvents
  /\ slackEvents[e].type = "message"
  /\ slackEvents[e].pc = "received"
  /\ LET threadTs == slackEvents[e].thread
     IN  IF (threadTs \in DOMAIN pendingClarifications)
         THEN LET pending == pendingClarifications[threadTs]
                  userAnswer == toLowerCase(slackEvents[e].text)
              IN  /\ pendingClarifications' = MapDelete(pendingClarifications, threadTs)
                  /\ slackEvents' =
                       IF userAnswer \in { << "skip" >>, << "skip questions" >> }
                       THEN [slackEvents EXCEPT ![e].pc = "postResearching",
                                                ![e].query = pending.query,
                                                ![e].images = pending.images]
                       ELSE [slackEvents EXCEPT
                               ![e].pc = "postResearching",
                               ![e].query = EnhancedQuery(pending.query, slackEvents[e].text),
                               ![e].images = pending.images]
                  /\ slackLog' = slackLog
         ELSE /\ pendingClarifications' = pendingClarifications
              /\ slackEvents' = [slackEvents EXCEPT ![e].pc = "runFollowUp"]
              /\ slackLog' = slackLog \cup { [what |-> "runFollowUp", event |-> e, thread |-> slackEvents[e].thread] }
  /\ UNCHANGED now
  /\ UNCHANGED << locals, envKey, pricing, followUp, parked, dbVars >>

\* the posts before the research settle (the "Thanks" of a reply with
\* context, the "Researching" of runAndPostResearch) and runResearch is
\* called; a rejected post ends the handler
RunAndPostResearchStart(e) ==
  /\ e \in DOMAIN slackEvents
  /\ slackEvents[e].pc = "postResearching"
  /\ \E ok \in BOOLEAN :
       IF ok
       THEN /\ slackEvents' = [slackEvents EXCEPT ![e].pc = "runResearch"]
            /\ slackLog' = slackLog \cup { [what |-> "runResearch", event |-> e, thread |-> slackEvents[e].thread] }
       ELSE /\ slackEvents' = [slackEvents EXCEPT ![e].pc = "done"]
            /\ slackLog' = slackLog
  /\ UNCHANGED << now, pendingClarifications >>
  /\ UNCHANGED << locals, envKey, pricing, followUp, parked, dbVars >>

\* the rest of the handler: runResearch or runFollowUp settles and the last
\* message is posted, or the help text or the questions are posted
HandlerFinishes(e) ==
  /\ e \in DOMAIN slackEvents
  /\ slackEvents[e].pc \in { "postHelp", "postLast", "runResearch", "runFollowUp" }
  /\ slackEvents' = [slackEvents EXCEPT ![e].pc = "done"]
  /\ UNCHANGED << now, pendingClarifications, slackLog >>
  /\ UNCHANGED << locals, envKey, pricing, followUp, parked, dbVars >>

NextSlack ==
  \/ SlackTick
  \/ \E e \in 1..MaxSlackEvents :
       \/ ProcessAppMentionStart(e)
       \/ ClarifyingQuestionsReturn(e)
       \/ ProcessThreadReplyStart(e)
       \/ RunAndPostResearchStart(e)
       \/ HandlerFinishes(e)

SpecSlack == InitSlack /\ [][NextSlack]_vars

\* ------------------------------------------------ pricing module calls
\* longest text handed to estimateCostFromText, in characters
MaxTextLen == 5

\* a priced model, the free model, a registry id the module's table does
\* not hold, and an id no table holds
PricingIds ==
  { "anthropic/claude-haiku-4.5:online", "meta-llama/llama-4-maverick:online",
    "x-ai/grok-4.1-fast:online", "unknown/model" }

TokenCounts == { 0, 1200 }

UsageChoices ==
  { None } \cup { Some([promptTokens |-> p, completionTokens |-> c, totalTokens |-> p + c]) :
                    p \in TokenCounts, c \in TokenCounts }

\* texts of every length up to MaxTextLen, and one of a single longer chunk
TextChoices == { [i \in 1..n |-> "x"] : n \in 0..MaxTextLen } \cup { << "answer" >> }

PricingCalls ==
  [modelId : PricingIds, usage : UsageChoices, inputText : TextChoices,
   outputText : TextChoices, cost : { None }, libCost : { None }, estimate : { None }]

\* a caller with a model id, a usage and two texts at hand; no round runs
InitPricing ==
  /\ request \in { r \in KeyRequests : r.apiKey = None /\ r.byokMode = None
                                       /\ r.modelIds = Some(<< "unknown/model" >>) }
  /\ envKey = None
  /\ now = 0
  /\ AtEntry
  /\ pricing \in { Some(c) : c \in PricingCalls }
  /\ followUp = None
  /\ parked = None
  /\ DbIdle
  /\ SlackIdle

\* calculateCost(modelId, usage), the inline one and the pricing module's
CalculateCostCall ==
  /\ IsSome(pricing)
  /\ Get(pricing).cost = None
  /\ pricing' = Some([Get(pricing) EXCEPT
                        !.cost = Some(calculateCost(Get(pricing).modelId, Get(pricing).usage)),
                        !.libCost = Some(calculateCostLib(Get(pricing).modelId,
                                                          Get(pricing).usage))])
  /\ UNCHANGED << locals, envKey, now, followUp, parked >>
  /\ UNCHANGED << dbVars, slackVars >>

\* estimateCostFromText(modelId, inputText, outputText)
EstimateCostCall ==
  /\ IsSome(pricing)
  /\ Get(pricing).estimate = None
  /\ pricing' = Some([Get(pricing) EXCEPT
                        !.estimate = Some(estimateCostFromText(Get(pricing).modelId,
                                                               Get(pricing).inputText,
                                                               Get(pricing).outputText))])
  /\ UNCHANGED << locals, envKey, now, followUp, parked >>
  /\ UNCHANGED << dbVars, slackVars >>

NextPricing == CalculateCostCall \/ EstimateCostCall

SpecPricing == InitPricing /\ [][NextPricing]_vars

\* ---------------------------------------------------------- properties
\* the fan-out happened: callbacks exist
FannedOut == promises # << >>

\* callback i has settled
Settled(i) == promises[i].state # "pending"

\* the set F of model calls whose upstream call threw
Threw(i) == IsSome(outcomes[i]) /\ Get(outcomes[i]).kind = "throw"
Returned(i) == IsSome(outcomes[i]) /\ Get(outcomes[i]).kind = "ok"

\* generateText calls beyond the one per model: the synthesis calls
SynthesisCallCount == Len(calls) - Len(promises)

\* C1: failure isolation. Each callback settles only through its own
\* upstream call; a call that did not throw yields success=true with the
\* text the gateway returned for it (what it yields when no call throws),
\* whichever other calls threw; a call that threw yields its own
\* success=false response with the thrown value's text; and once the
\* fan-out is over runResearch holds one response per model, so no throw
\* aborted the round.
C1_FailureIsolation ==
  /\ \A i \in DOMAIN promises :
       /\ Settled(i) => IsSome(outcomes[i]) /\ promises[i].state = "fulfilled"
       /\ (Settled(i) /\ Returned(i)) =>
            /\ Get(promises[i].value).success = TRUE
            /\ Get(promises[i].value).content = Get(outcomes[i]).text
       /\ (Settled(i) /\ Threw(i)) =>
            /\ Get(promises[i].value).success = FALSE
            /\ Get(promises[i].value).error
                 = Some(ErrorText(Get(Get(outcomes[i]).error)))
  /\ (FannedOut /\ pc # "awaitAll") =>
       /\ IsSome(responses)
       /\ Len(Get(responses)) = Len(models)
       /\ \A i \in DOMAIN promises :
            Returned(i) =>
              /\ Get(responses)[i].success = TRUE
              /\ Get(responses)[i].content = Get(outcomes[i]).text

\* a round in which one call threw, another returned, and the join is over
C1_Witness ==
  /\ FannedOut
  /\ pc # "awaitAll"
  /\ \E i, j \in DOMAIN promises : Threw(i) /\ Returned(j)
  /\ IsSome(responses)

\* ids the request selects: request.modelIds, or the defaults when it is
\* absent or empty
SelectedIds ==
  IF request.modelIds = None \/ request.modelIds = Some(<< >>)
  THEN DEFAULT_MODELS ELSE Get(request.modelIds)

ResponseIds(rs) == [i \in DOMAIN rs |-> rs[i].modelId]

\* C2 as stated: the returned responses are positionally the selected ids
C2_Original ==
  pc = "returned" =>
    /\ Len(Get(result).responses) = Len(SelectedIds)
    /\ \A i \in DOMAIN SelectedIds : Get(result).responses[i].modelId = SelectedIds[i]

\* C2 amended: the returned responses are positionally the selected ids
\* that the registry knows, in request order (all K of them when all are
\* known), under every completion order; every callback fills its own slot.
C2_OrderPreserved ==
  /\ \A i \in DOMAIN promises :
       promises[i].state = "fulfilled" => Get(promises[i].value).modelId = models[i].id
  /\ pc = "returned" =>
       /\ ResponseIds(Get(result).responses) = SelectSeqBy(SelectedIds, RegistryIds)
       /\ (Range(SelectedIds) \subseteq RegistryIds =>
             ResponseIds(Get(result).responses) = SelectedIds)

\* two different known ids were selected, the call of the second settled
\* before the call of the first did, and the round returned
C2_Witness ==
  /\ pc = "returned"
  /\ IsSome(request.modelIds)
  /\ Len(Get(request.modelIds)) = 2
  /\ Get(request.modelIds)[1] # Get(request.modelIds)[2]
  /\ Range(Get(request.modelIds)) \subseteq RegistryIds
  /\ Get(Get(result).responses[1].durationMs) > Get(Get(result).responses[2].durationMs)

\* every model call of the round threw
AllThrew == FannedOut /\ \A i \in DOMAIN promises : Threw(i)

\* C3: when every model call fails the round returns, never throws, with
\* successCount 0 and the fixed failure text, and no synthesis call is issued.
C3_AllFailShortCircuit ==
  AllThrew =>
    /\ pc \in { "awaitAll", "returned" }
    /\ thrown = None
    /\ synthesis = None
    /\ SynthesisCallCount = 0
    /\ pc = "returned" =>
         /\ Get(result).successCount = 0
         /\ Get(result).synthesis = AllFailedSynthesis
         /\ Len(Get(result).responses) = Len(models)

C3_Witness == AllThrew /\ pc = "returned" /\ Len(models) >= 2

\* C4: wait for all. While any model call is pending runResearch stays at
\* the join: no synthesis call is issued, nothing is returned, nothing thrown.
C4_WaitForAll ==
  (FannedOut /\ \E i \in DOMAIN promises : ~Settled(i)) =>
    /\ pc = "awaitAll"
    /\ synthesis = None
    /\ SynthesisCallCount = 0
    /\ result = None
    /\ thrown = None

\* one call has already failed while another is still pending
C4_Witness ==
  /\ FannedOut
  /\ \E i, j \in DOMAIN promises : Threw(i) /\ Settled(i) /\ ~Settled(j)
  /\ pc = "awaitAll"

\* C5: once a key and at least one model are resolved, runResearch throws
\* only the value its synthesis call threw; otherwise a return carries one
\* success=false response per failed model.
C5_OnlySynthesisThrows ==
  /\ (FannedOut /\ pc = "threw") =>
       /\ IsSome(synthesis)
       /\ Get(synthesis).state = "rejected"
       /\ thrown = Get(synthesis).reason
  /\ (FannedOut /\ pc = "returned") =>
       \A i \in DOMAIN promises :
         Threw(i) => /\ Get(result).responses[i].success = FALSE
                     /\ Get(result).responses[i].modelId = models[i].id

\* a round that returned although some, but not all, model calls threw
C5_Witness ==
  /\ FannedOut
  /\ pc = "returned"
  /\ \E i, j \in DOMAIN promises : Threw(i) /\ Returned(j)

\* C6: key resolution. After the entry step: a non-empty request.apiKey is
\* the key used; otherwise with byokMode true the round fails with
\* MissingCredential whatever the server key is; otherwise the server key is
\* used, and the round fails with MissingCredential when there is none.
C6_KeyResolution ==
  pc # "entry" =>
    IF TruthyStr(request.apiKey)
    THEN apiKey = request.apiKey /\ thrown # Some(MissingCredential)
    ELSE IF request.byokMode = Some(TRUE)
    THEN apiKey = None /\ pc = "threw" /\ thrown = Some(MissingCredential)
    ELSE IF TruthyStr(envKey)
    THEN apiKey = envKey /\ thrown # Some(MissingCredential)
    ELSE apiKey = None /\ pc = "threw" /\ thrown = Some(MissingCredential)

\* BYOK without a request key failed although a server key is configured
C6_Witness ==
  /\ pc = "threw"
  /\ request.byokMode = Some(TRUE)
  /\ ~TruthyStr(request.apiKey)
  /\ TruthyStr(envKey)
  /\ thrown = Some(MissingCredential)

\* C7: a round that failed with MissingCredential or NoValidModels issued no
\* upstream call, neither a model call nor a synthesis call.
C7_NoCallBeforeFatal ==
  (thrown = Some(MissingCredential) \/ thrown = Some(NoValidModels)) =>
    /\ calls = << >>
    /\ promises = << >>
    /\ synthesis = None

\* a round failed with MissingCredential although it selected a known model
C7_Witness ==
  /\ pc = "threw"
  /\ thrown = Some(MissingCredential)
  /\ IsSome(request.modelIds)
  /\ \E i \in DOMAIN Get(request.modelIds) : Get(request.modelIds)[i] \in RegistryIds

\* C8: model resolution. Once a key is resolved the models of the round are
\* the selected ids (request.modelIds, the defaults when absent or empty)
\* that the registry knows, in order; the round fails with NoValidModels
\* exactly when none is known, and otherwise fans out to the known ones.
C8_ModelResolution ==
  /\ thrown = Some(NoValidModels) => SelectSeqBy(SelectedIds, RegistryIds) = << >>
  /\ (pc # "entry" /\ thrown # Some(MissingCredential)) =>
       /\ [i \in DOMAIN models |-> models[i].id] = SelectSeqBy(SelectedIds, RegistryIds)
       /\ (thrown = Some(NoValidModels)) <=> (SelectSeqBy(SelectedIds, RegistryIds) = << >>)
       /\ SelectSeqBy(SelectedIds, RegistryIds) # << >> => Len(promises) = Len(models)

\* a non-empty list holding only unknown ids failed with NoValidModels
C8_Witness ==
  /\ thrown = Some(NoValidModels)
  /\ IsSome(request.modelIds)
  /\ Len(Get(request.modelIds)) >= 1
  /\ Range(Get(request.modelIds)) \cap RegistryIds = {}

\* the synthesis call was issued and rejected
SynthesisFailed == IsSome(synthesis) /\ Get(synthesis).state = "rejected"

\* C9: when the synthesis call rejects, runResearch throws the thrown value:
\* no result, no second synthesis call; at most one synthesis call ever.
C9_SynthesisFailurePropagates ==
  /\ SynthesisCallCount <= 1
  /\ SynthesisFailed =>
       /\ pc = "threw"
       /\ thrown = Get(synthesis).reason
       /\ result = None
       /\ SynthesisCallCount = 1

C9_Witness == SynthesisFailed /\ pc = "threw"

\* the shape the data model requires of one ModelResponse of call i
WellFormedResponse(r, i) ==
  /\ IsSome(r.durationMs)
  /\ Get(r.durationMs) \in 0..(now - modelStart[i])
  /\ \/ /\ r.success = TRUE
        /\ r.error = None
        /\ Returned(i)
        /\ r.content = Get(outcomes[i]).text
     \/ /\ r.success = FALSE
        /\ IsSome(r.error)
        /\ Threw(i)
        /\ r.content = << >>

\* C10: every ModelResponse, in a callback's promise, in the joined array
\* and in the returned result, is success=true with the returned text and
\* no error, or success=false with an error and empty content; durationMs
\* is present in both.
C10_ResponseShape ==
  /\ \A i \in DOMAIN promises :
       promises[i].state = "fulfilled" => WellFormedResponse(Get(promises[i].value), i)
  /\ IsSome(responses) =>
       \A i \in DOMAIN Get(responses) : WellFormedResponse(Get(responses)[i], i)
  /\ IsSome(result) =>
       \A i \in DOMAIN Get(result).responses :
         WellFormedResponse(Get(result).responses[i], i)

\* a returned result holding a failed and a successful response
C10_Witness ==
  /\ IsSome(result)
  /\ \E i, j \in DOMAIN Get(result).responses :
       /\ Get(result).responses[i].success
       /\ ~Get(result).responses[j].success

\* C11: every returned result counts its responses: successCount is the
\* number of success=true responses and modelCount the number of
\* responses; with successCount >= 1 the synthesis is the text the
\* synthesis call resolved with, with successCount = 0 it is the fixed
\* failure text and no synthesis call resolved.
C11_ResultCounts ==
  IsSome(result) =>
    LET r == Get(result)
    IN  /\ r.successCount = Cardinality({ i \in DOMAIN r.responses : r.responses[i].success })
        /\ r.modelCount = Len(r.responses)
        /\ r.successCount >= 1 =>
             /\ IsSome(synthesis)
             /\ Get(synthesis).state = "fulfilled"
             /\ r.synthesis = Get(Get(synthesis).value)
        /\ r.successCount = 0 =>
             /\ synthesis = None
             /\ r.synthesis = AllFailedSynthesis

\* a full result over three responses, some but not all of them successful
C11_Witness ==
  /\ IsSome(result)
  /\ Get(result).modelCount = 3
  /\ Get(result).successCount \in { 1, 2 }
  /\ Get(result).synthesis # AllFailedSynthesis

\* the text of the synthesis call's single user message
SynthesisCallPrompt == calls[Len(promises) + 1].messages[1].content.text

\* reading a synthesis prompt back: one [model, content] per "### " header,
\* the content running up to the next separator or the closing instructions
SectionEnd(t, p) ==
  CHOOSE q \in (p + 1)..Len(t) :
    /\ t[q] = "\n\n---\n\n" \/ q = Len(t)
    /\ \A k \in (p + 1)..(q - 1) : t[k] # "\n\n---\n\n"

RECURSIVE SectionsFrom(_, _)
SectionsFrom(t, p) ==
  IF p > Len(t) THEN << >>
  ELSE (IF t[p] = "### "
        THEN << [model |-> t[p + 1], content |-> SubSeq(t, p + 3, SectionEnd(t, p) - 1)] >>
        ELSE << >>)
       \o SectionsFrom(t, p + 1)

\* C14: the prompt of the synthesis call holds one section per successful
\* response, with its content, in request order, and nothing of a failed
\* response: no section for it and not its error text.
C14_SynthesisPromptScope ==
  SynthesisCallCount >= 1 =>
    LET ok == SelectSeq(Get(responses), LAMBDA r : r.success)
    IN  /\ SectionsFrom(SynthesisCallPrompt, 1)
             = [i \in DOMAIN ok |-> [model |-> ok[i].model, content |-> ok[i].content]]
        /\ \A i \in DOMAIN Get(responses) :
             ~Get(responses)[i].success =>
               Get(Get(responses)[i].error) \notin Range(SynthesisCallPrompt)

\* a synthesis call over a failed response between two successful ones, one
\* of them with an empty answer
C14_Witness ==
  /\ SynthesisCallCount >= 1
  /\ Len(Get(responses)) = 3
  /\ Get(responses)[1].success /\ Get(responses)[1].content = << >>
  /\ ~Get(responses)[2].success
  /\ Get(responses)[3].success /\ Get(responses)[3].content # << >>

\* what one response adds to the total: its cost, 0 for a failed response
CostContribution(r) == IF r.success THEN Get(r.cost) ELSE 0

RECURSIVE SumContributions(_)
SumContributions(rs) ==
  IF rs = << >> THEN 0 ELSE CostContribution(Head(rs)) + SumContributions(Tail(rs))

\* C16 as stated: every returned result carries the sum as totalCost
C16_Original ==
  IsSome(result) => Get(result).totalCost = Some(SumContributions(Get(result).responses))

\* C16 amended: a result with at least one successful response carries as
\* totalCost the sum of its responses' costs, failed ones adding 0; the
\* all-failed result carries no totalCost.
C16_TotalCost ==
  IsSome(result) =>
    IF Get(result).successCount >= 1
    THEN Get(result).totalCost = Some(SumContributions(Get(result).responses))
    ELSE Get(result).totalCost = None

\* a result whose first response carries a cost and which holds a failure
C16_Witness ==
  /\ IsSome(result)
  /\ Get(result).successCount >= 1
  /\ Get(result).responses[1].success
  /\ Get(Get(result).responses[1].cost) > 0
  /\ \E i \in DOMAIN Get(result).responses : ~Get(result).responses[i].success

\* ------------------------------------------------------------------ C15
\* C15: a successful response whose gateway reply carried no usage has its
\* cost computed by estimateCostFromText and is flagged isEstimate = TRUE;
\* one whose reply carried usage has its cost computed by calculateCost and
\* carries no estimate flag
C15_EstimateFlagging ==
  IsSome(responses) =>
    \A i \in DOMAIN Get(responses) :
      LET r == Get(responses)[i]
          estimate == estimateCostFromText(r.modelId, request.query, r.content)
      IN  r.success =>
            IF r.usage = None
            THEN /\ "isEstimate" \in DOMAIN r
                 /\ r.isEstimate = TRUE
                 /\ IsSome(estimate) => r.cost = Some(Get(estimate).cost)
            ELSE /\ r.cost = Some(calculateCost(r.modelId, r.usage))
                 /\ "isEstimate" \notin DOMAIN r

\* ------------------------------------------------------------------ C17
\* C17: calculateCost returns 0 when usage is missing or the model id has
\* no pricing entry, and otherwise promptTokens * inputRate / 1e6 +
\* completionTokens * outputRate / 1e6; it returns a number for every
\* input. Holds of the inline function over its table and of the pricing
\* module's function over its own.
CostByTable(table, modelId, usage) ==
  IF usage = None \/ modelId \notin DOMAIN table
  THEN 0
  ELSE usage[1].promptTokens * table[modelId].input
       + usage[1].completionTokens * table[modelId].output

C17_CalculateCost ==
  (IsSome(pricing) /\ IsSome(Get(pricing).cost)) =>
    LET q == Get(pricing)
    IN  /\ q.cost = << CostByTable(MODEL_PRICING, q.modelId, q.usage) >>
        /\ q.libCost = << CostByTable(MODEL_PRICING_LIB, q.modelId, q.usage) >>
        /\ q.cost[1] \in Nat
        /\ q.libCost[1] \in Nat

\* 1200 prompt and 1200 completion tokens on Claude Haiku: 0.0018 USD
C17_Witness ==
  /\ IsSome(pricing)
  /\ Get(pricing).modelId = "anthropic/claude-haiku-4.5:online"
  /\ Get(pricing).usage = Some([promptTokens |-> 1200, completionTokens |-> 1200,
                                totalTokens |-> 2400])
  /\ Get(pricing).cost = Some(1800000)
  /\ Get(pricing).libCost = Some(1800000)

\* ------------------------------------------------------------------ C18
\* C18: estimateCostFromText returns null exactly when the model id has no
\* pricing entry or both of its rates are 0; otherwise it returns
\* isEstimate = TRUE with the cost of ceil(input length / 4) input tokens
\* and ceil(output length / 4) output tokens at the model's rates
\* the least k with 4k >= n
Ceil4(n) == CHOOSE k \in 0..n : 4 * k >= n /\ \A j \in 0..n : 4 * j >= n => k <= j

C18_EstimateCostFromText ==
  (IsSome(pricing) /\ IsSome(Get(pricing).estimate)) =>
    LET q == Get(pricing)
        e == Get(q.estimate)
        unpriced == \/ q.modelId \notin DOMAIN MODEL_PRICING_LIB
                    \/ /\ MODEL_PRICING_LIB[q.modelId].input = 0
                       /\ MODEL_PRICING_LIB[q.modelId].output = 0
    IN  /\ (e = None) <=> unpriced
        /\ ~unpriced =>
             /\ e[1].isEstimate = TRUE
             /\ e[1].cost = Ceil4(StrLength(q.inputText)) * MODEL_PRICING_LIB[q.modelId].input
                            + Ceil4(StrLength(q.outputText)) * MODEL_PRICING_LIB[q.modelId].output

\* 5 characters in, 6 out on Claude Haiku: 2 and 2 tokens
C18_Witness ==
  /\ IsSome(pricing)
  /\ Get(pricing).modelId = "anthropic/claude-haiku-4.5:online"
  /\ StrLength(Get(pricing).inputText) = 5
  /\ Get(pricing).outputText = << "answer" >>
  /\ Get(pricing).estimate = Some(Some([cost |-> 3000, isEstimate |-> TRUE]))

\* ------------------------------------------------------------------ C12
\* the user message of research call i: the last message of the call
UserContent(i) == calls[i].messages[Len(calls[i].messages)].content

\* the content of message m carries an image part
CarriesImage(m) ==
  m.content.type = "parts" /\ \E k \in DOMAIN m.content.parts : m.content.parts[k].type = "image"

\* C12: with N >= 1 images attached, the call to a model that does not
\* support vision has a plain-text user message, the notice
\* "[Note: N image(s) attached but not visible to this model]" followed by
\* the query, and none of its messages carries an image part
C12_NonVisionNotice ==
  \A i \in DOMAIN promises :
    (HasImages(request) /\ ~models[i].supportsVision) =>
      LET n == Len(Get(request.images))
          text == UserContent(i).text
      IN  /\ UserContent(i).type = "string"
          /\ SubSeq(text, 1, 3)
               = << "[Note: ", ToString(n), " image(s) attached but not visible to this model]\n\n" >>
          /\ SubSeq(text, 4, Len(text)) = request.query
          /\ \A k \in DOMAIN calls[i].messages : ~CarriesImage(calls[i].messages[k])

\* two attachments, the call to o3 has gone out
C12_Witness ==
  /\ FannedOut
  /\ HasImages(request)
  /\ Len(Get(request.images)) = 2
  /\ \E i \in DOMAIN promises :
       /\ models[i].id = "openai/o3:online"
       /\ UserContent(i).type = "string"
       /\ UserContent(i).text[2] = "2"

\* ------------------------------------------------------------------ C13
\* C13: with N >= 1 images attached, the call to a model that supports
\* vision has a user message of one text part, the query, followed by
\* exactly N image parts in attachment order; so in one round the vision
\* models are sent the images and the others are not
C13_VisionParts ==
  \A i \in DOMAIN promises :
    (HasImages(request) /\ models[i].supportsVision) =>
      LET imgs == Get(request.images)
          c == UserContent(i)
      IN  /\ c.type = "parts"
          /\ Len(c.parts) = 1 + Len(imgs)
          /\ c.parts[1] = [type |-> "text", text |-> request.query]
          /\ \A k \in DOMAIN imgs :
               c.parts[k + 1]
                 = [type |-> "image",
                    image |-> << "data:", imgs[k].mimeType, ";base64,", imgs[k].base64 >>]

\* one round, two different attachments: Claude Haiku is sent both, o3 none
C13_Witness ==
  /\ FannedOut
  /\ HasImages(request)
  /\ Len(Get(request.images)) = 2
  /\ Get(request.images)[1] # Get(request.images)[2]
  /\ \E i, j \in DOMAIN promises :
       /\ models[i].supportsVision
       /\ UserContent(i).type = "parts"
       /\ Len(UserContent(i).parts) = 3
       /\ ~models[j].supportsVision
       /\ ~CarriesImage(calls[j].messages[2])

\* ------------------------------------------------------------------ C19
\* C19: runFollowUp issues exactly one upstream call, to the fixed
\* follow-up model; its messages are the system prompt, then the prior
\* context only when a non-empty context was supplied, then the query as
\* the last, user, message; no research or synthesis call is issued; and
\* a value the upstream call throws reaches the caller unchanged
C19_FollowUpSingleCall ==
  IsSome(followUp) =>
    LET f == Get(followUp)
        hasContext == f.context # None /\ f.context # Some(<< >>)
    IN  /\ f.pc = "entry" => f.calls = << >>
        /\ f.pc # "entry" =>
             /\ Len(f.calls) = 1
             /\ f.calls[1].model = "anthropic/claude-haiku-4.5:online"
             /\ LET m == f.calls[1].messages
                IN  /\ Len(m) = IF hasContext THEN 3 ELSE 2
                    /\ m[1].role = "system"
                    /\ hasContext => m[2].content = f.context[1]
                    /\ \A k \in DOMAIN m : (m[k].role = "user") <=> (k = Len(m))
                    /\ m[Len(m)].content = f.query
        /\ calls = << >> /\ promises = << >> /\ synthesis = None
        /\ (IsSome(f.outcome) /\ f.outcome[1].kind = "throw") =>
             /\ f.pc = "threw"
             /\ f.thrown = f.outcome[1].error
             /\ f.result = None
        /\ (IsSome(f.outcome) /\ f.outcome[1].kind = "ok") =>
             /\ f.pc = "returned"
             /\ f.result = Some(f.outcome[1].text)
             /\ f.thrown = None

\* a follow-up with a context whose call threw, and the caller got the throw
C19_Witness ==
  /\ IsSome(followUp)
  /\ Get(followUp).context = Some(<< "synthesis" >>)
  /\ Len(Get(followUp).calls) = 1
  /\ Len(Get(followUp).calls[1].messages) = 3
  /\ Get(followUp).pc = "threw"
  /\ Get(followUp).thrown = Some(JsNonError("timeout"))

\* ------------------------------------------------------------------ C20
\* a result without what was read from the clock
Untimed(r) ==
  [r EXCEPT !.totalDurationMs = 0,
            !.timestamp = None,
            !.responses = [i \in DOMAIN @ |-> [@[i] EXCEPT !.durationMs = None]]]

\* the response runResearch makes of the reply to one of its model calls
ResponseOf(model, outcome) ==
  IF outcome.kind = "ok"
  THEN SuccessResponse(model, outcome, 0)
  ELSE FailureResponse(model, Get(outcome.error), 0)

\* invocation v issued the calls, and ended with the result or the throw,
\* that runResearch run alone makes of v's request and of the replies to
\* v's calls
DeterminedByOwn(v) ==
  LET ms == LookupModels(ResolveModelIds(v.request))
      orch == ResolveOrchestrator(v.request)
      rs == [i \in DOMAIN ms |-> ResponseOf(ms[i], Get(v.outcomes[i]))]
  IN  /\ v.pc = "entry" => v.calls = << >>
      /\ v.pc \in { "awaitAll", "awaitSynthesis", "returned" } =>
           /\ Len(v.calls) >= Len(ms)
           /\ \A i \in DOMAIN ms : v.calls[i] = ModelCallOptions(ms[i], v.request)
           /\ Len(v.calls) > Len(ms) =>
                /\ Len(v.calls) = Len(ms) + 1
                /\ v.calls[Len(ms) + 1] = OrchestratorOptions(orch, v.request, Successful(rs))
      /\ v.pc = "returned" =>
           Untimed(Get(v.result))
             = IF Len(Successful(rs)) = 0
               THEN Untimed(AllFailedResult(v.request, rs, ms, orch, 0, 0))
               ELSE Untimed(FullResult(v.request, rs, ms, orch, 0, 0,
                                       Get(Get(v.synthesis).value)))
      /\ v.pc = "threw" =>
           /\ Len(ms) > 0
           /\ Get(v.synthesis).state = "rejected"
           /\ v.thrown = Get(v.synthesis).reason

\* C20: runResearch and runFollowUp keep no state between calls: whatever
\* the interleaving of two rounds and a follow-up, each round issues the
\* calls and ends with the result that its own request and the replies to
\* its own calls determine, and the follow-up returns the text of its own
\* reply or rethrows the value its own call threw
C20_NoSharedState ==
  /\ DeterminedByOwn(Invocation)
  /\ IsSome(parked) => DeterminedByOwn(Get(parked))
  /\ IsSome(followUp) =>
       LET f == Get(followUp)
       IN  /\ f.pc # "entry" => f.calls = << FollowUpOptions(f.query, f.context) >>
           /\ f.pc = "returned" => f.result = Some(Get(f.outcome).text)
           /\ f.pc = "threw" => f.thrown = Get(f.outcome).error

\* both rounds and the follow-up have finished; the rounds had different
\* requests and each result names its own query, model and orchestrator
C20_Witness ==
  /\ IsSome(parked)
  /\ pc = "returned"
  /\ Get(parked).pc = "returned"
  /\ request # Get(parked).request
  /\ Get(result).successCount = 1
  /\ Get(Get(parked).result).successCount = 1
  /\ Get(result).orchestrator # Get(Get(parked).result).orchestrator
  /\ Get(result).responses[1].modelId # Get(Get(parked).result).responses[1].modelId
  /\ IsSome(followUp)
  /\ Get(followUp).pc = "returned"

\* ------------------------------------------------------------------ C24
\* where a round is in the state machine view
\*   PENDING -> FANNED_OUT -> (ALL_FAILED | SOME_SUCCEEDED) -> [SYNTHESIZING] -> COMPLETE
\* The join takes the ALL_FAILED branch and returns, or the SOME_SUCCEEDED
\* branch and issues the synthesis call, without an await in between; a
\* throw leaves the machine.
Phase ==
  CASE pc = "entry" -> "PENDING"
    [] pc = "awaitAll" -> "FANNED_OUT"
    [] pc = "awaitSynthesis" -> "SYNTHESIZING"
    [] pc = "returned" -> IF Len(Successful(Get(responses))) = 0 THEN "ALL_FAILED" ELSE "COMPLETE"
    [] pc = "threw" -> "THREW"

PhaseSteps ==
  { << "PENDING", "FANNED_OUT" >>, << "FANNED_OUT", "ALL_FAILED" >>,
    << "FANNED_OUT", "SYNTHESIZING" >>, << "SYNTHESIZING", "COMPLETE" >>,
    << "PENDING", "THREW" >>, << "SYNTHESIZING", "THREW" >> }

\* C24: every step of a round keeps its state or moves it one edge forward
\* along PENDING -> FANNED_OUT -> (ALL_FAILED | SOME_SUCCEEDED) ->
\* [SYNTHESIZING] -> COMPLETE (the edges form no cycle, so no state is
\* visited twice); SYNTHESIZING is entered only from the join with at least
\* one successful response, never with none; ALL_FAILED ends the round
C24_RoundStateMachine ==
  [][ /\ Phase' # Phase => << Phase, Phase' >> \in PhaseSteps
      /\ (Phase' = "SYNTHESIZING" /\ Phase # "SYNTHESIZING") =>
           /\ Phase = "FANNED_OUT"
           /\ Len(Successful(Get(responses'))) >= 1
      /\ (Phase' = "ALL_FAILED" /\ Phase # "ALL_FAILED") => synthesis' = None
      /\ Phase = "ALL_FAILED" => locals' = locals
      /\ Phase = "COMPLETE" => locals' = locals ]_vars

\* a round of two models, one failed and one succeeded, that went through
\* the synthesis and is complete
C24_Witness ==
  /\ pc = "returned"
  /\ Phase = "COMPLETE"
  /\ Len(models) = 2
  /\ Len(Successful(Get(responses))) = 1
  /\ IsSome(synthesis)

\* ------------------------------------------------------------------ C25
\* C25: a round issues exactly one upstream call per resolved model, in
\* order, and exactly one synthesis call once the join found a successful
\* response: N calls while the models are awaited and when all failed,
\* N + 1 otherwise, whatever has thrown; a call that failed is never
\* issued again
C25_CallCount ==
  /\ ~FannedOut => calls = << >>
  /\ FannedOut =>
       LET n == Len(models)
           synthesisIssued == IsSome(responses) /\ Len(Successful(Get(responses))) >= 1
       IN  /\ Len(promises) = n
           /\ Len(calls) = IF synthesisIssued THEN n + 1 ELSE n
           /\ \A i \in 1..n : calls[i].model = models[i].id
           /\ synthesisIssued =>
                /\ calls[n + 1].model = Get(orchestratorId)
                /\ calls[n + 1].maxTokens = 1500
           /\ (pc = "returned" /\ Get(result).successCount = 0) => Len(calls) = n
           /\ (pc = "returned" /\ Get(result).successCount >= 1) => Len(calls) = n + 1
           /\ pc = "threw" => Len(calls) = n + 1

\* three models, one of them threw: four calls in all, and the round returned
C25_Witness ==
  /\ pc = "returned"
  /\ Len(models) = 3
  /\ Len(calls) = 4
  /\ \E i \in DOMAIN promises : Threw(i)
  /\ \E i \in DOMAIN promises : Returned(i)

\* ------------------------------------------------------------------ C26
\* C26: when every upstream call eventually settles, runResearch eventually
\* returns a result or throws; and there is no timeout: as long as one
\* model call has not settled the round is still waiting at the join, with
\* no result and no throw, however many other calls have succeeded
C26_Termination ==
  /\ <>(pc \in { "returned", "threw" })
  /\ [](\A i \in DOMAIN promises :
          ~Settled(i) => /\ pc = "awaitAll"
                         /\ result = None
                         /\ thrown = None
                         /\ synthesis = None)

\* three models, two have answered, the third is still in flight and the
\* round waits
C26_Witness ==
  /\ pc = "awaitAll"
  /\ Len(promises) = 3
  /\ Returned(1) /\ Returned(2)
  /\ ~Settled(3)
  /\ now = MaxClock

\* ------------------------------------------------------------------ C27
\* C27: every model call has maxTokens = 2500 and the reasoning metadata
\* its descriptor's reasoning mode selects: 'enabled' gives
\* reasoning.enabled = TRUE, 'low' and 'high' give reasoning.effort of
\* that level, and a descriptor without a mode gives no metadata
C27_GenerationOptions ==
  \A i \in DOMAIN promises :
    LET mode == models[i].reasoning
        meta == calls[i].experimental_providerMetadata
    IN  /\ calls[i].maxTokens = 2500
        /\ mode = << "enabled" >> =>
             meta = << [openrouter |-> [reasoning |-> [enabled |-> TRUE]]] >>
        /\ mode = << "low" >> =>
             meta = << [openrouter |-> [reasoning |-> [effort |-> "low"]]] >>
        /\ mode = << "high" >> =>
             meta = << [openrouter |-> [reasoning |-> [effort |-> "high"]]] >>
        /\ mode = << >> => meta = << >>
        /\ mode \in { << >>, << "enabled" >>, << "low" >>, << "high" >> }

\* the call to Grok Fast, the model whose reasoning mode is 'enabled', is out
C27_Witness ==
  /\ FannedOut
  /\ models[1].id = "x-ai/grok-4.1-fast:online"
  /\ models[1].reasoning = Some("enabled")
  /\ calls[1].experimental_providerMetadata # None

\* ------------------------------------------------------------------ C29
\* the request leaves the model list to the defaults
UsesDefaults(req) == req.modelIds = None \/ req.modelIds = Some(<< >>)

\* C29: every id of the default set is in the registry; so a round whose
\* request has no or an empty modelIds and for which a credential is
\* available never throws NoValidModels, and fans out to exactly the
\* default models in their declared order
C29_DefaultsResolve ==
  /\ \A k \in DOMAIN DEFAULT_MODELS :
       \E j \in DOMAIN ALL_MODELS : ALL_MODELS[j].id = DEFAULT_MODELS[k]
  /\ (UsesDefaults(request) /\ TruthyStr(ResolveApiKey(request, envKey)) /\ pc # "entry") =>
       /\ thrown # Some(NoValidModels)
       /\ Len(promises) = Len(DEFAULT_MODELS)
       /\ \A k \in DOMAIN DEFAULT_MODELS :
            /\ models[k].id = DEFAULT_MODELS[k]
            /\ calls[k].model = DEFAULT_MODELS[k]

\* an empty modelIds list: the three default models are being awaited
C29_Witness ==
  /\ request.modelIds = Some(<< >>)
  /\ pc = "awaitAll"
  /\ Len(promises) = 3
  /\ models[3].id = "deepseek/deepseek-r1:online"
  /\ calls[1].model = "anthropic/claude-haiku-4.5:online"

\* ------------------------------------------------------------------ C28
\* positions of the section headers of a synthesis prompt
HeaderPositions(t) == { p \in DOMAIN t : t[p] = "### " }

\* the i-th of them
NthHeader(t, i) ==
  CHOOSE p \in HeaderPositions(t) : Cardinality({ q \in HeaderPositions(t) : q < p }) = i - 1

\* C28: the synthesis prompt quotes the first 200 characters of the query
\* and no more; then comes one section per successful response, in order,
\* headed by "### " and the display name of its model, and between two
\* sections, and nowhere else, the horizontal-rule separator
C28_PromptLayout ==
  SynthesisCallCount >= 1 =>
    LET t == SynthesisCallPrompt
        q == request.query
        k == IF Len(q) <= 200 THEN Len(q) ELSE 200
        ok == SelectSeq(Get(responses), LAMBDA r : r.success)
        rules == { p \in DOMAIN t : t[p] = "\n\n---\n\n" }
    IN  /\ t[1] = "Synthesize these AI model responses to: \""
        /\ \A i \in 1..k : t[1 + i] = q[i]
        /\ t[k + 2] = "\"\n\n"
        /\ Cardinality(HeaderPositions(t)) = Len(ok)
        /\ NthHeader(t, 1) = k + 3
        /\ \A i \in DOMAIN ok :
             /\ t[NthHeader(t, i) + 1] = Get(FindModel(ok[i].modelId)).name
             /\ t[NthHeader(t, i) + 2] = "\n"
             /\ i > 1 => NthHeader(t, i) - 1 \in rules
        /\ Cardinality(rules) = Len(ok) - 1
        /\ \A p \in rules : p + 1 \in HeaderPositions(t)

\* a query of 260 characters and two successful responses: the prompt
\* holds none of the characters past the 200th and one separator
C28_Witness ==
  /\ SynthesisCallCount = 1
  /\ Len(request.query) = 260
  /\ Len(SelectSeq(Get(responses), LAMBDA r : r.success)) = 2
  /\ "b" \notin Range(SynthesisCallPrompt)
  /\ Cardinality({ p \in DOMAIN SynthesisCallPrompt : SynthesisCallPrompt[p] = "a" }) = 200

\* ------------------------------------------------------------------ C21
\* the deduction call reported success
DeductSucceeded(call) ==
  IF call.fn = "deductCredits" THEN call.ret[1] # << >> ELSE call.ret[1].success

\* C21: under every interleaving of concurrent deductions credits_cents is
\* never negative; the step in which a deduction finishes with success
\* found a balance of at least the cost and lowers credits_cents and raises
\* total_spent_cents by exactly the cost; the step in which one finishes
\* with the failure value, and every other step, leaves the table as it is
C21_AtomicDeduction ==
  /\ [](\A u \in DOMAIN users : users[u].credits_cents >= 0)
  /\ [][ LET finishing == { c \in DOMAIN dbCalls :
                              dbCalls[c].pc # "done" /\ dbCalls'[c].pc = "done" }
         IN  /\ \A c \in finishing :
                  LET u == dbCalls[c].userId
                      cost == dbCalls[c].costCents
                  IN  IF DeductSucceeded(dbCalls'[c])
                      THEN /\ u \in DOMAIN users
                           /\ users[u].credits_cents >= cost
                           /\ users'[u].credits_cents = users[u].credits_cents - cost
                           /\ users'[u].total_spent_cents = users[u].total_spent_cents + cost
                           /\ \A v \in DOMAIN users \ { u } : users'[v] = users[v]
                      ELSE users' = users
             /\ finishing = {} => users' = users ]_vars

\* two deductions of 7 against a balance of 10: deductUserCredits read the
\* balance as sufficient, lost the race to the other call, and failed with
\* the table untouched by it
C21_Witness ==
  /\ Len(dbCalls) = 2
  /\ \A c \in DOMAIN dbCalls : dbCalls[c].pc = "done" /\ dbCalls[c].costCents = 7
  /\ \E c \in DOMAIN dbCalls :
       /\ dbCalls[c].fn = "deductUserCredits"
       /\ dbCalls[c].current # None
       /\ dbCalls[c].current[1].creditsCents = 10
       /\ ~dbCalls[c].ret[1].success
  /\ users["user_a"].credits_cents = 3

\* ------------------------------------------------------------------ C22
\* C22: a referral code is redeemed at most 8 times: under every
\* interleaving of redeemReferralCode calls uses_remaining is never below 0
\* and no code has more than 8 redemptions recorded or counted
C22_AtMostEightRedemptions ==
  \A r \in referral_codes :
    /\ r.uses_remaining >= 0
    /\ r.total_uses <= DEFAULT_USES_REMAINING
    /\ Cardinality({ d \in referral_redemptions : d.code = r.code }) <= DEFAULT_USES_REMAINING

\* ------------------------------------------------------------------ C23
\* C23: each user has at most one referral_codes row, whatever the
\* interleaving of getOrCreateReferralCode and regenerateReferralCode calls
C23_OneCodePerUser ==
  \A u \in DOMAIN users :
    Cardinality({ r \in referral_codes : r.user_id = u }) <= 1

\* ------------------------------------------------------------------ C30
\* the entries of the log of one kind for one thread
LogCount(what, thread) ==
  Cardinality({ l \in slackLog : l.what = what /\ l.thread = thread })

\* research rounds started by replies in the thread
ReplyRounds(thread) ==
  Cardinality({ l \in slackLog :
                  /\ l.what = "runResearch"
                  /\ l.thread = thread
                  /\ slackEvents[l.event].type = "message" })

\* C30: replies start at most as many research rounds in a thread as
\* clarifications were stored for it; the step in which a reply is taken up
\* removes the pending entry if there is one, and a reply that finds none
\* calls runFollowUp and starts no round
C30_PendingConsumedOnce ==
  /\ [](\A e \in DOMAIN slackEvents :
          ReplyRounds(slackEvents[e].thread) <= LogCount("pendingSet", slackEvents[e].thread))
  /\ [][ \A e \in DOMAIN slackEvents :
           (slackEvents[e].type = "message" /\ slackEvents[e].pc = "received"
              /\ slackEvents'[e].pc # "received")
           => IF (slackEvents[e].thread \in DOMAIN pendingClarifications)
              THEN /\ ~(slackEvents[e].thread \in DOMAIN pendingClarifications')
                   /\ slackEvents'[e].pc = "postResearching"
              ELSE /\ slackEvents'[e].pc = "runFollowUp"
                   /\ pendingClarifications' = pendingClarifications ]_vars
  /\ [](\A e \in DOMAIN slackEvents :
          slackEvents[e].type = "message" /\ slackEvents[e].pc = "runFollowUp"
          => \A l \in slackLog : l.event = e => l.what = "runFollowUp")

\* one clarification stored for t1 and two replies in t1 taken up: one
\* started the research round, the other ran as a follow-up
C30_Witness ==
  /\ LogCount("pendingSet", "t1") = 1
  /\ ReplyRounds("t1") = 1
  /\ \E e1, e2 \in DOMAIN slackEvents :
       /\ e1 # e2
       /\ slackEvents[e1].type = "message" /\ slackEvents[e1].thread = "t1"
       /\ slackEvents[e2].type = "message" /\ slackEvents[e2].thread = "t1"
       /\ slackEvents[e1].pc = "runResearch"
       /\ slackEvents[e2].pc = "runFollowUp"
  /\ ~("t1" \in DOMAIN pendingClarifications)

====
